---- MODULE Spec2Model ----
(***************************************************************************)
(* Orchestrator of the multi-agent framework                               *)
(* (src/ai-agent-framework/src/core/orchestrator.py) together with the     *)
(* part of BaseAgent (src/ai-agent-framework/src/agents/base_agent.py)     *)
(* that the orchestrator calls, the TaskRouter                              *)
(* (src/ai-agent-framework/src/core/task_router.py) and the ContextManager *)
(* (src/ai-agent-framework/src/core/context_manager.py).                   *)
(*                                                                         *)
(* The orchestrator is a single-threaded asyncio program.  Every action    *)
(* below is one run of a coroutine between two suspension points.          *)
(***************************************************************************)
EXTENDS Integers, Sequences, FiniteSets, TLC

\* ------------------------------------------------------------------ bounds
\* Number of task ids a caller submits (ids are 1..MaxTasks, in the order of
\* submission; ids are unique, types.py Task.id).
MaxTasks == 3
\* The configured config["max_concurrent_tasks"] (the code's default is 50;
\* the ceiling is configurable and is set low enough to be reached).
max_concurrent_tasks == 2
\* Number of register_agent calls per agent name.
MaxRegistrations == 1
\* Number of jumps of the wall clock.
MaxClockAdvances == 1
\* Number of create_workflow calls.
MaxWorkflows == 1

\* ------------------------------------------------------- program constants
\* config["heartbeat_interval"], seconds
heartbeat_interval == 30
\* retention window of _cleanup_old_tasks, seconds
task_retention == 3600

\* --------------------------------------------------------------- vocabulary
None == "None"
NoTime == -1

PENDING == "pending"
RUNNING == "running"
COMPLETED == "completed"
FAILED == "failed"
CANCELLED == "cancelled"
TaskStatus == {PENDING, RUNNING, COMPLETED, FAILED, CANCELLED}

HEALTHY == "healthy"
UNHEALTHY == "unhealthy"
OFFLINE == "offline"
AgentStatus == {HEALTHY, UNHEALTHY, OFFLINE}

TaskIds == 1..MaxTasks
Agents == {"agent_a", "agent_b"}
TaskTypes == {"read_file", "unsupported_operation"}

\* AgentRegistration of each agent object (immutable after construction).
registration(a) ==
    IF a = "agent_a"
    THEN [supported_task_types |-> {"read_file"},
          capabilities |-> {"file_operations"},
          priority |-> 7, max_concurrent_tasks |-> 1]
    ELSE [supported_task_types |-> {"read_file"},
          capabilities |-> {"file_operations"},
          priority |-> 7, max_concurrent_tasks |-> 2]

\* Error texts.
NoAgentError == "No suitable agent available"
ResultError == "result.error"
ExceptionText == "str(e)"

\* A jump of the wall clock: just past the retention window (and so past the
\* heartbeat timeout as well).
ClockStep == task_retention + 1
ClockSteps == {ClockStep}

VARIABLES
    registered_agents,   \* keys of _registered_agents, in dict (insertion) order
    agent_info,          \* AgentInfo of each registered agent
    agent_instances,     \* keys of _agent_instances
    agent_current_tasks, \* BaseAgent.current_tasks of each agent object
    active_tasks,        \* keys of _active_tasks
    tasks,               \* the Task objects, by id
    task_results,        \* _task_results
    task_queue,          \* _task_queue
    is_running,          \* _is_running
    processor_pc,        \* position of _task_processor_loop
    tasks_to_execute,    \* the tick's tasks_to_execute
    exec_pc,             \* position of each _execute_task coroutine
    now,                 \* the wall clock, datetime.now()
    execute_calls,       \* history: calls of agent.execute_task per task
    result_stores,       \* history: stores into _task_results per task
    registrations,       \* history: register_agent calls per agent name
    setup_pc,            \* position of each register_agent call
    active_contexts,     \* keys of _active_contexts
    active_workflows,    \* values of _active_workflows, in dict order
    router_stats,        \* TaskRouter.stats
    routed_task,         \* the task of the find_best_agent calls
    available_agents,    \* the agent map of the calls, in dict order
    returned,            \* history: what each find_best_agent call returned
    context_manager,     \* the ContextManager and the files of its storage_path
    context_calls,       \* history: number of ContextManager calls and clock jumps
    last_call            \* history: the ContextManager method called last

vars == <<registered_agents, agent_info, agent_instances, agent_current_tasks,
          active_tasks, tasks, task_results, task_queue, is_running, processor_pc, tasks_to_execute, exec_pc, now,
          execute_calls, result_stores, registrations, setup_pc,
          active_contexts, active_workflows,
          router_stats, routed_task, available_agents, returned,
          context_manager, context_calls, last_call>>

\* The ContextManager with its storage.
context_vars == <<context_manager, context_calls, last_call>>

\* The TaskRouter and the arguments and results of its calls.
router_vars == <<router_stats, routed_task, available_agents, returned>>

\* The Orchestrator and the agent objects.
orchestrator_vars ==
    <<registered_agents, agent_info, agent_instances, agent_current_tasks,
      active_tasks, tasks, task_results, task_queue, is_running, processor_pc,
      tasks_to_execute, exec_pc, now, execute_calls, result_stores,
      registrations, setup_pc, active_contexts, active_workflows>>

\* The same without the wall clock.
orchestrator_vars_but_now ==
    <<registered_agents, agent_info, agent_instances, agent_current_tasks,
      active_tasks, tasks, task_results, task_queue, is_running, processor_pc,
      tasks_to_execute, exec_pc, execute_calls, result_stores,
      registrations, setup_pc, active_contexts, active_workflows>>

\* ------------------------------------------------------------------ helpers
Range(s) == {s[i] : i \in 1..Len(s)}

\* list.remove(x) guarded by "x in list": the first occurrence goes.
RECURSIVE ListRemove(_, _)
ListRemove(s, x) ==
    IF s = <<>> THEN <<>>
    ELSE IF Head(s) = x THEN Tail(s)
    ELSE <<Head(s)>> \o ListRemove(Tail(s), x)

\* Variant: the whole list, whatever n.
PySliceWhole(s, n) == s

\* Python's s[:n], also for negative n.
PySlicePrefix(s, n) ==
    LET k == IF n >= 0 THEN (IF n < Len(s) THEN n ELSE Len(s))
             ELSE (IF Len(s) + n > 0 THEN Len(s) + n ELSE 0)
    IN SubSeq(s, 1, k)

\* AgentInfo(...) as register_agent builds it.
NewAgentInfo ==
    [status |-> OFFLINE, current_tasks |-> <<>>, last_heartbeat |-> now,
     error_count |-> 0, total_tasks_completed |-> 0]

\* Placeholder for the AgentInfo of a name that is not registered.
NoAgentInfo ==
    [status |-> OFFLINE, current_tasks |-> <<>>, last_heartbeat |-> NoTime,
     error_count |-> 0, total_tasks_completed |-> 0]

IsRegistered(a) == a \in Range(registered_agents)

\* Task(...) as a caller builds it for submit_task.
NewTask(type, deps, pin) ==
    [type |-> type, dependencies |-> deps, assigned_agent |-> pin,
     status |-> PENDING, error |-> None, execution_end |-> NoTime]

\* Absent entry of _task_results (dict.get gives None).
NoResult == [task_id |-> 0, success |-> FALSE, error |-> None]

\* The id of the next task submitted.
next_id == Len(tasks) + 1

\* Dependency lists a caller gives the task with this id: none, the previous
\* task, the two previous tasks, or (the first task) a task not submitted yet.
\* The code only iterates over the list, so it is a set here.
DependencyChoices(id) ==
    {D \in SUBSET TaskIds :
        \/ D = {}
        \/ id > 1 /\ D = {id - 1}
        \/ id > 2 /\ D = {id - 2, id - 1}
        \/ id = 1 /\ D = {MaxTasks}}

\* Type and pin of the tasks a caller submits.
TaskKinds ==
    {[type |-> "read_file", assigned_agent |-> None],
     [type |-> "read_file", assigned_agent |-> "agent_a"],
     [type |-> "unsupported_operation", assigned_agent |-> None]}

\* Whether a caller passes a Context with the task: with the tasks that
\* depend on nothing, not with the others.
ContextGiven(deps) == deps = {}

\* A task that comes without an id.
EmptyId == 0

\* str(uuid.uuid4())[:8]: an id no task has yet.
generated_id == next_id

\* submit_task: the id the task has after "if not task.id".
assigned_id(id) == IF id = EmptyId THEN generated_id ELSE id

\* TaskRouter.__init__: self.stats.
NewRouterStats ==
    [total_routed |-> 0, successful_matches |-> 0, failed_matches |-> 0,
     load_balanced_routes |-> 0, priority_boosted_routes |-> 0]

\* Orchestrator.__init__
InitOrchestrator ==
    /\ registered_agents = <<>>
    /\ agent_info = [a \in Agents |-> NoAgentInfo]
    /\ agent_instances = {}
    /\ agent_current_tasks = [a \in Agents |-> <<>>]
    /\ active_tasks = {}
    /\ tasks = <<>>
    /\ task_results = [t \in TaskIds |-> NoResult]
    /\ task_queue = <<>>
    /\ is_running = FALSE
    /\ processor_pc = "stopped"
    /\ tasks_to_execute = <<>>
    /\ exec_pc = [t \in TaskIds |-> "none"]
    /\ now = 0
    /\ execute_calls = [t \in TaskIds |-> 0]
    /\ result_stores = [t \in TaskIds |-> 0]
    /\ registrations = [a \in Agents |-> 0]
    /\ setup_pc = [a \in Agents |-> "none"]
    /\ active_contexts = {}
    /\ active_workflows = <<>>

\* A router that no one has called.
InitRouterIdle ==
    /\ router_stats = NewRouterStats
    /\ routed_task = [type |-> "read_file", priority |-> 0,
                      assigned_agent |-> None]
    /\ available_agents = <<>>
    /\ returned = <<>>

\* Dicts are functions on the set of their keys.
EmptyDict == [k \in {} |-> None]

\* ContextManager.__init__ on an empty storage_path.
NewContextManager ==
    [active_contexts |-> EmptyDict,
     user_id_index |-> EmptyDict,
     agent_states_index |-> EmptyDict,
     last_cleanup |-> 0,
     stats |-> [contexts_created |-> 0, contexts_loaded |-> 0,
                contexts_expired |-> 0, memory_operations |-> 0,
                context_merges |-> 0],
     files |-> EmptyDict,
     archived |-> {}]

\* The call a caller of the ContextManager has made.
Call(method, conversation_id, source) ==
    [method |-> method, conversation_id |-> conversation_id,
     source |-> source]

InitContextManager ==
    /\ context_manager = NewContextManager
    /\ context_calls = 0
    /\ last_call = Call("__init__", None, None)

\* create_framework: an Orchestrator, a TaskRouter and a ContextManager.
Init == InitOrchestrator /\ InitRouterIdle /\ InitContextManager

\* ------------------------------------------------------------ agent side
\* BaseAgent.can_handle_task, with _can_handle_task_specific of the concrete
\* agents (FileAgent, TaskAgent: task.type in supported_task_types).
can_handle_task_specific(a, type) ==
    type \in registration(a).supported_task_types

\* Variant: the agent's capacity is not checked.
can_handle_task_any_load(a, type) ==
    /\ type \in registration(a).supported_task_types
    /\ can_handle_task_specific(a, type)

can_handle_task(a, type) ==
    /\ type \in registration(a).supported_task_types
    /\ Len(agent_current_tasks[a]) < registration(a).max_concurrent_tasks
    /\ can_handle_task_specific(a, type)

\* ------------------------------------------------------ orchestrator side
\* Variant: a dependency counts as soon as it is in the task table.
are_dependencies_satisfied_any_status(t) ==
    \A dep_id \in tasks[t].dependencies : dep_id \in active_tasks

\* Variant: a dependency counts once it has ended, however it ended.
are_dependencies_satisfied_terminal(t) ==
    \A dep_id \in tasks[t].dependencies :
        /\ dep_id \in active_tasks
        /\ tasks[dep_id].status \in {COMPLETED, FAILED}

\* Orchestrator._are_dependencies_satisfied
are_dependencies_satisfied(t) ==
    IF tasks[t].dependencies = {} THEN TRUE
    ELSE \A dep_id \in tasks[t].dependencies :
            /\ dep_id \in active_tasks
            /\ tasks[dep_id].status = COMPLETED

\* The pinned branch of Orchestrator._find_suitable_agent.
pinned_agent_available(t) ==
    /\ tasks[t].assigned_agent # None
    /\ IsRegistered(tasks[t].assigned_agent)
    /\ tasks[t].assigned_agent \in agent_instances
    /\ can_handle_task(tasks[t].assigned_agent, tasks[t].type)

\* The candidates of the unpinned branch, in dict order.
is_suitable(a, t) ==
    /\ agent_info[a].status = HEALTHY
    /\ a \in agent_instances
    /\ can_handle_task(a, tasks[t].type)

suitable_agents(t) ==
    LET Test(a) == is_suitable(a, t) IN SelectSeq(registered_agents, Test)

\* suitable_agents.sort(key=len(current_tasks)) is stable: the first of the
\* least loaded candidates comes first.
least_loaded(s) ==
    LET load(i) == Len(agent_info[s[i]].current_tasks)
        k == CHOOSE i \in 1..Len(s) :
                \A j \in 1..Len(s) :
                    /\ load(i) <= load(j)
                    /\ (load(j) = load(i) => i <= j)
    IN s[k]

\* Orchestrator._find_suitable_agent
find_suitable_agent(t) ==
    IF pinned_agent_available(t) THEN tasks[t].assigned_agent
    ELSE IF suitable_agents(t) = <<>> THEN None
    ELSE least_loaded(suitable_agents(t))

\* The coroutines started by one asyncio.gather take their first steps back
\* to back: nothing else runs between the first and the last of them.
MidFanOut ==
    /\ \E i \in 1..Len(tasks_to_execute) : exec_pc[tasks_to_execute[i]] = "created"
    /\ \E i \in 1..Len(tasks_to_execute) : exec_pc[tasks_to_execute[i]] # "created"

\* What register_agent returns: False from its except branch, True otherwise
\* (the value setup() returns is not read).
register_agent_returns(outcome) == outcome # "raise"

\* Orchestrator.register_agent up to the await of agent.setup(): the entries
\* are stored first, with status OFFLINE.  A caller does not register a name
\* again while its register_agent call is under way.
register_agent(a) ==
    /\ ~MidFanOut
    /\ registrations[a] < MaxRegistrations
    /\ setup_pc[a] = "none"
    /\ registrations' = [registrations EXCEPT ![a] = @ + 1]
    /\ setup_pc' = [setup_pc EXCEPT ![a] = "awaiting"]
    /\ registered_agents' =
          IF IsRegistered(a) THEN registered_agents
          ELSE Append(registered_agents, a)
    /\ agent_instances' = agent_instances \cup {a}
    /\ agent_info' = [agent_info EXCEPT ![a] = NewAgentInfo]
    /\ UNCHANGED <<context_vars, router_vars, active_workflows, active_contexts, agent_current_tasks, active_tasks, tasks, task_results,
                   task_queue, is_running, processor_pc,
                   tasks_to_execute, exec_pc, now, execute_calls, result_stores>>

\* Orchestrator.register_agent from the return (or the exception) of
\* agent.setup() to its end; outcome is what setup() did.  The AgentInfo the
\* call built is marked HEALTHY; it is the registered one unless
\* unregister_agent has removed it since.
setup_returns(a, outcome) ==
    /\ ~MidFanOut
    /\ setup_pc[a] = "awaiting"
    /\ outcome \in {"ok", "false", "raise"}
    /\ setup_pc' = [setup_pc EXCEPT ![a] = "none"]
    /\ agent_info' =
          IF outcome # "raise" /\ IsRegistered(a)
          THEN [agent_info EXCEPT ![a].status = HEALTHY]
          ELSE agent_info
    /\ UNCHANGED <<context_vars, router_vars, active_workflows, active_contexts, registered_agents, agent_instances, agent_current_tasks,
                   active_tasks, tasks, task_results, task_queue, is_running,
                   processor_pc, tasks_to_execute, exec_pc, now,
                   execute_calls, result_stores, registrations>>

\* The agent side of the orchestrator's state, as unregister_agent reads and
\* writes it.
registry_state ==
    [registered_agents |-> registered_agents,
     agent_instances |-> agent_instances,
     agent_info |-> agent_info,
     agent_current_tasks |-> agent_current_tasks]

\* Variant: the instance goes, the registry entry stays.
unregister_keeps_info(st, a) ==
    IF a \in st.agent_instances
    THEN [returns |-> TRUE,
          state |-> [st EXCEPT !.agent_instances = @ \ {a}]]
    ELSE [returns |-> FALSE, state |-> st]

\* Orchestrator.unregister_agent, with BaseAgent.stop: what it returns and
\* the state it leaves.
unregister_effect(st, a) ==
    IF a \in st.agent_instances
    THEN [returns |-> TRUE,
          state |-> [st EXCEPT
             !.agent_current_tasks[a] = <<>>,
             !.agent_instances = @ \ {a},
             !.registered_agents = ListRemove(@, a),
             !.agent_info[a] = NoAgentInfo]]
    ELSE [returns |-> FALSE, state |-> st]

\* Orchestrator.unregister_agent
unregister_agent(a) ==
    /\ ~MidFanOut
    /\ LET after == unregister_effect(registry_state, a).state IN
       /\ agent_current_tasks' = after.agent_current_tasks
       /\ agent_instances' = after.agent_instances
       /\ registered_agents' = after.registered_agents
       /\ agent_info' = after.agent_info
    /\ UNCHANGED <<context_vars, router_vars, active_workflows, active_contexts, active_tasks, tasks, task_results, task_queue,
                   is_running, processor_pc,
                   tasks_to_execute, exec_pc, now, execute_calls, result_stores, registrations,
                   setup_pc>>

\* Variant: the task goes to the head of the queue.
enqueue_at_head(queue, id) == <<id>> \o queue

\* submit_task: self._task_queue.append(task)
enqueue(queue, id) == Append(queue, id)

\* What submit_task returns.
submit_task_returns(id) == assigned_id(id)

\* Orchestrator.submit_task; a caller gives the task no id or an id no task
\* has yet, so that assigned_id(id) is the next position of the task table.
submit_task(id, type, deps, pin, context) ==
    /\ next_id <= MaxTasks
    /\ id \in {EmptyId, next_id}
    /\ deps \in DependencyChoices(next_id)
    /\ ~MidFanOut
    /\ tasks' = Append(tasks, NewTask(type, deps, pin))
    /\ active_tasks' = active_tasks \cup {assigned_id(id)}
    /\ task_queue' = enqueue(task_queue, assigned_id(id))
    /\ active_contexts' =
          IF context THEN active_contexts \cup {assigned_id(id)}
          ELSE active_contexts
    /\ UNCHANGED <<context_vars, router_vars, active_workflows, registered_agents, agent_info, agent_instances,
                   agent_current_tasks, task_results, is_running, processor_pc, tasks_to_execute, exec_pc, now,
                   execute_calls, result_stores, registrations, setup_pc>>

\* Orchestrator.start: the three background loops begin.
start ==
    /\ ~is_running
    /\ is_running' = TRUE
    /\ processor_pc' = "sleep"
    /\ UNCHANGED <<context_vars, router_vars, active_workflows, active_contexts, registered_agents, agent_info, agent_instances,
                   agent_current_tasks, active_tasks, tasks, task_results,
                   task_queue, tasks_to_execute, exec_pc,
                   now, execute_calls, result_stores, registrations,
                   setup_pc>>

\* One iteration of Orchestrator._task_processor_loop up to asyncio.gather:
\* the scan of the queue and the choice of the tick's tasks.
\* Variant: the ready tasks are taken latest first.
ready_tasks_latest_first ==
    LET ready == SelectSeq(task_queue, are_dependencies_satisfied)
    IN [i \in 1..Len(ready) |-> ready[Len(ready) + 1 - i]]

ready_tasks == SelectSeq(task_queue, are_dependencies_satisfied)

current_running ==
    Cardinality({t \in active_tasks : tasks[t].status = RUNNING})

available_slots == max_concurrent_tasks - current_running

\* Variant: ready tasks are not taken out of the queue.
queue_after_scan_keeps_ready == task_queue

\* The queue after the scan: self._task_queue.remove(task) for every ready
\* task.
queue_after_scan ==
    LET not_ready(t) == ~are_dependencies_satisfied(t)
    IN SelectSeq(task_queue, not_ready)

task_processor_loop ==
    /\ is_running
    /\ processor_pc = "sleep"
    /\ task_queue # <<>>
    /\ LET to_execute == IF ready_tasks # <<>>
                         THEN PySlicePrefix(ready_tasks, available_slots)
                         ELSE <<>>
       IN /\ task_queue' = queue_after_scan
          /\ tasks_to_execute' = to_execute
          /\ exec_pc' = [t \in TaskIds |->
                IF t \in Range(to_execute) THEN "created" ELSE exec_pc[t]]
          /\ processor_pc' = IF to_execute # <<>> THEN "gather" ELSE "sleep"
    /\ UNCHANGED <<context_vars, router_vars, active_workflows, active_contexts, registered_agents, agent_info, agent_instances,
                   agent_current_tasks, active_tasks, tasks, task_results,
                   is_running, now, execute_calls, result_stores, registrations,
                   setup_pc>>

\* Variant: the task is left PENDING.
no_agent_update_keeps_pending(task) ==
    [task EXCEPT !.error = NoAgentError]

\* _execute_task when _find_suitable_agent finds nobody.
no_agent_update(task) ==
    [task EXCEPT !.status = FAILED, !.error = NoAgentError]

\* Variant: the error is not counted.
revert_without_error_count(info, t) ==
    [info EXCEPT !.current_tasks = ListRemove(@, t)]

\* Variant: a failed task goes back to PENDING.
result_status_retry(outcome) ==
    IF outcome = "success" THEN COMPLETED ELSE PENDING

\* _execute_task: the status a returned TaskResult gives the task.
result_status(outcome) ==
    IF outcome = "success" THEN COMPLETED ELSE FAILED

\* Variant: the error is counted and the task id stays in current_tasks.
revert_error_count_only(info, t) ==
    [info EXCEPT !.error_count = @ + 1]

\* The except branch of _execute_task: the clean-up of the agent assignment.
revert_agent_assignment(info, t) ==
    [info EXCEPT !.current_tasks = ListRemove(@, t), !.error_count = @ + 1]

\* The coroutine of the tick that takes its first step next.
next_created ==
    LET idx == {i \in 1..Len(tasks_to_execute) :
                    exec_pc[tasks_to_execute[i]] = "created"}
    IN tasks_to_execute[CHOOSE i \in idx : \A j \in idx : i <= j]

\* Orchestrator._execute_task from its start to the suspension inside
\* agent.execute_task (BaseAgent.execute_task up to _execute_task_specific).
execute_task_dispatch(t) ==
    /\ processor_pc = "gather"
    /\ exec_pc[t] = "created"
    /\ t = next_created
    /\ LET agent_name == find_suitable_agent(t) IN
       IF agent_name = None
       THEN /\ tasks' = [tasks EXCEPT ![t] = no_agent_update(@)]
            /\ exec_pc' = [exec_pc EXCEPT ![t] = "done"]
            /\ UNCHANGED <<agent_info, agent_current_tasks, execute_calls>>
       ELSE /\ tasks' = [tasks EXCEPT ![t].status = RUNNING,
                                      ![t].assigned_agent = agent_name]
            /\ agent_info' = [agent_info EXCEPT ![agent_name].current_tasks =
                                Append(@, t)]
            /\ execute_calls' = [execute_calls EXCEPT ![t] = @ + 1]
            /\ IF can_handle_task(agent_name, tasks[t].type)
               THEN /\ agent_current_tasks' =
                          [agent_current_tasks EXCEPT ![agent_name] = Append(@, t)]
                    /\ exec_pc' = [exec_pc EXCEPT ![t] = "awaiting"]
               ELSE /\ exec_pc' = [exec_pc EXCEPT ![t] = "rejected"]
                    /\ UNCHANGED agent_current_tasks
    /\ UNCHANGED <<context_vars, router_vars, active_workflows, active_contexts, registered_agents, agent_instances, active_tasks,
                   task_results, task_queue, is_running, processor_pc,
                   tasks_to_execute, now, result_stores, registrations,
                   setup_pc>>

\* The AgentInfo captured by _execute_task is still the registered one: a
\* later register_agent or unregister_agent of the name replaces the object,
\* and the new one does not list the task.
captured_info_live(t) ==
    /\ IsRegistered(tasks[t].assigned_agent)
    /\ t \in Range(agent_info[tasks[t].assigned_agent].current_tasks)

\* What agent.execute_task can do once it resumes.
ExecutionOutcomes(t) ==
    IF exec_pc[t] = "rejected" THEN {"failure"}
    ELSE {"success", "failure", "raise"}

\* Orchestrator._execute_task from the return (or the exception) of
\* agent.execute_task to its end, with the finally of BaseAgent.execute_task.
execute_task_return(t, outcome) ==
    /\ exec_pc[t] \in {"awaiting", "rejected"}
    /\ outcome \in ExecutionOutcomes(t)
    /\ LET a == tasks[t].assigned_agent
           live == captured_info_live(t)
       IN
       /\ agent_current_tasks' =
             [agent_current_tasks EXCEPT ![a] = ListRemove(@, t)]
       /\ IF outcome = "raise"
          THEN /\ tasks' = [tasks EXCEPT ![t].status = FAILED,
                                         ![t].error = ExceptionText,
                                         ![t].execution_end = now]
               /\ agent_info' =
                     IF live
                     THEN [agent_info EXCEPT
                             ![a] = revert_agent_assignment(@, t)]
                     ELSE agent_info
               /\ UNCHANGED <<task_results, result_stores>>
          ELSE /\ tasks' = [tasks EXCEPT
                             ![t].status = result_status(outcome),
                             ![t].error = IF outcome = "success"
                                          THEN @ ELSE ResultError,
                             ![t].execution_end = now]
               /\ agent_info' =
                     IF live
                     THEN [agent_info EXCEPT
                             ![a].current_tasks = ListRemove(@, t),
                             ![a].total_tasks_completed =
                                 IF outcome = "success" THEN @ + 1 ELSE @,
                             ![a].error_count =
                                 IF outcome = "success" THEN @ ELSE @ + 1]
                     ELSE agent_info
               /\ task_results' = [task_results EXCEPT ![t] =
                     [task_id |-> t, success |-> (outcome = "success"),
                      error |-> IF outcome = "success" THEN None
                                ELSE ResultError]]
               /\ result_stores' = [result_stores EXCEPT ![t] = @ + 1]
    /\ exec_pc' = [exec_pc EXCEPT ![t] = "done"]
    /\ UNCHANGED <<context_vars, router_vars, active_workflows, active_contexts, registered_agents, agent_instances, active_tasks,
                   task_queue, is_running, processor_pc, tasks_to_execute,
                   now, execute_calls, registrations,
                   setup_pc>>

\* Variant: the loop goes on as soon as one coroutine of the tick has ended.
gather_returns_first_completed ==
    /\ processor_pc = "gather"
    /\ \E i \in 1..Len(tasks_to_execute) : exec_pc[tasks_to_execute[i]] = "done"
    /\ \A i \in 1..Len(tasks_to_execute) :
          exec_pc[tasks_to_execute[i]] # "created"
    /\ processor_pc' = "sleep"
    /\ tasks_to_execute' = <<>>
    /\ exec_pc' = [t \in TaskIds |->
                      IF exec_pc[t] = "done" THEN "none" ELSE exec_pc[t]]
    /\ UNCHANGED <<context_vars, router_vars, active_workflows, active_contexts, registered_agents, agent_info, agent_instances,
                   agent_current_tasks, active_tasks, tasks, task_results,
                   task_queue, is_running, now,
                   execute_calls, result_stores, registrations,
                   setup_pc>>

\* asyncio.gather returns when every coroutine of the tick has ended; the
\* loop then sleeps until its next iteration.
gather_returns ==
    /\ processor_pc = "gather"
    /\ \A i \in 1..Len(tasks_to_execute) : exec_pc[tasks_to_execute[i]] = "done"
    /\ processor_pc' = "sleep"
    /\ tasks_to_execute' = <<>>
    /\ exec_pc' = [t \in TaskIds |-> "none"]
    /\ UNCHANGED <<context_vars, router_vars, active_workflows, active_contexts, registered_agents, agent_info, agent_instances,
                   agent_current_tasks, active_tasks, tasks, task_results,
                   task_queue, is_running, now,
                   execute_calls, result_stores, registrations,
                   setup_pc>>

\* Orchestrator._cleanup_old_tasks, called by every iteration of
\* _health_check_loop.
is_old_task(t) ==
    /\ tasks[t].status \in {COMPLETED, FAILED, CANCELLED}
    /\ tasks[t].execution_end # NoTime
    /\ now - tasks[t].execution_end > task_retention

cleanup_old_tasks ==
    /\ is_running
    /\ ~MidFanOut
    /\ LET tasks_to_remove == {t \in active_tasks : is_old_task(t)} IN
       /\ tasks_to_remove # {}
       /\ active_tasks' = active_tasks \ tasks_to_remove
       /\ task_results' = [t \in TaskIds |->
             IF t \in tasks_to_remove THEN NoResult ELSE task_results[t]]
       /\ active_contexts' = active_contexts \ tasks_to_remove
    /\ UNCHANGED <<context_vars, router_vars, active_workflows, registered_agents, agent_info, agent_instances,
                   agent_current_tasks, tasks, task_queue, is_running, processor_pc, tasks_to_execute, exec_pc, now,
                   execute_calls, result_stores, registrations,
                   setup_pc>>

\* One iteration of Orchestrator._heartbeat_loop.
heartbeat_loop ==
    /\ is_running
    /\ ~MidFanOut
    /\ agent_info' = [a \in Agents |->
          IF IsRegistered(a)
          THEN [agent_info[a] EXCEPT
                  !.last_heartbeat = now,
                  !.status =
                     IF /\ now - agent_info[a].last_heartbeat
                              > heartbeat_interval * 2
                        /\ agent_info[a].status = HEALTHY
                     THEN UNHEALTHY ELSE @]
          ELSE agent_info[a]]
    /\ UNCHANGED <<context_vars, router_vars, active_workflows, active_contexts, registered_agents, agent_instances, agent_current_tasks,
                   active_tasks, tasks, task_results, task_queue,
                   is_running, processor_pc,
                   tasks_to_execute, exec_pc, now, execute_calls, result_stores, registrations,
                   setup_pc>>

\* Time passes.
advance_clock(d) ==
    /\ ~MidFanOut
    /\ now + d <= MaxClockAdvances * ClockStep
    /\ now' = now + d
    /\ UNCHANGED <<context_vars, router_vars, active_workflows, active_contexts, registered_agents, agent_info, agent_instances,
                   agent_current_tasks, active_tasks, tasks, task_results,
                   task_queue, is_running, processor_pc, tasks_to_execute,
                   exec_pc, execute_calls, result_stores, registrations,
                   setup_pc>>

\* execution_mode of create_workflow: the two modes it knows and any other
\* string.
ExecutionModes == {"sequential", "parallel", "batch"}

\* The steps of a workflow: type and agent of each.
WorkflowStepKinds ==
    {[type |-> "read_file", agent |-> None],
     [type |-> "unsupported_operation", agent |-> None]}

WorkflowSteps ==
    UNION {[1..n -> WorkflowStepKinds] : n \in 0..MaxTasks}

\* Variant: no step depends on another.
workflow_dependencies_none(mode, i, first_id) == {}

\* dependencies of the task of step i (from 1) of a workflow whose first task
\* has id first_id: _create_sequential_workflow chains on prev_task_id,
\* _create_parallel_workflow gives none.
workflow_dependencies(mode, i, first_id) ==
    IF mode = "sequential" /\ i > 1 THEN {first_id + i - 2} ELSE {}

\* The number of tasks create_workflow submits.
workflow_task_count(mode, steps) ==
    IF mode \in {"sequential", "parallel"} THEN Len(steps) ELSE 0

\* Orchestrator.create_workflow with _create_sequential_workflow and
\* _create_parallel_workflow: one submit_task per step, without a context.
create_workflow(mode, steps) ==
    /\ Len(active_workflows) < MaxWorkflows
    /\ Len(tasks) + Len(steps) <= MaxTasks
    /\ ~MidFanOut
    /\ LET n == workflow_task_count(mode, steps)
           first_id == next_id
           task_ids == [i \in 1..n |-> first_id + i - 1]
       IN /\ tasks' = tasks \o [i \in 1..n |->
                NewTask(steps[i].type,
                        workflow_dependencies(mode, i, first_id),
                        steps[i].agent)]
          /\ active_tasks' = active_tasks \cup Range(task_ids)
          /\ task_queue' = task_queue \o task_ids
          /\ active_workflows' = Append(active_workflows,
                [execution_mode |-> mode,
                 steps |-> Len(steps),
                 status |-> IF mode \in {"sequential", "parallel"}
                            THEN "executing" ELSE "created",
                 task_ids |-> task_ids,
                 completed_steps |-> 0,
                 failed_steps |-> 0])
    /\ UNCHANGED <<context_vars, router_vars, active_contexts, registered_agents, agent_info,
                   agent_instances, agent_current_tasks, task_results,
                   is_running, processor_pc, tasks_to_execute, exec_pc, now,
                   execute_calls, result_stores, registrations, setup_pc>>

\* get_workflow_status: the tasks of the workflow found in _active_tasks with
\* the given status.
workflow_tasks_with(workflow, status) ==
    {i \in 1..Len(workflow.task_ids) :
        /\ workflow.task_ids[i] \in active_tasks
        /\ tasks[workflow.task_ids[i]].status = status}

\* Variant: partial_failure is never reported.
workflow_status_no_failure(workflow, completed_tasks, failed_tasks) ==
    IF completed_tasks = Len(workflow.task_ids) THEN "completed"
    ELSE workflow.status

\* get_workflow_status: the overall status.
workflow_status(workflow, completed_tasks, failed_tasks) ==
    IF completed_tasks = Len(workflow.task_ids) THEN "completed"
    ELSE IF failed_tasks > 0 THEN "partial_failure"
    ELSE workflow.status

\* get_workflow_status: the workflow record it leaves.
workflow_after_status(workflow) ==
    LET completed_tasks == Cardinality(workflow_tasks_with(workflow, COMPLETED))
        failed_tasks == Cardinality(workflow_tasks_with(workflow, FAILED))
    IN [workflow EXCEPT
          !.completed_steps = completed_tasks,
          !.failed_steps = failed_tasks,
          !.status = workflow_status(workflow, completed_tasks, failed_tasks)]

\* get_workflow_status: the dict it returns.
workflow_report(workflow) ==
    LET after == workflow_after_status(workflow)
    IN [status |-> after.status,
        total_steps |-> Len(after.task_ids),
        completed_steps |-> after.completed_steps,
        failed_steps |-> after.failed_steps,
        execution_mode |-> after.execution_mode]

\* Orchestrator.get_workflow_status on a known workflow id.
get_workflow_status(w) ==
    /\ w \in DOMAIN active_workflows
    /\ ~MidFanOut
    /\ active_workflows' =
          [active_workflows EXCEPT ![w] = workflow_after_status(@)]
    /\ UNCHANGED <<context_vars, router_vars, active_contexts, registered_agents, agent_info,
                   agent_instances, agent_current_tasks, active_tasks, tasks,
                   task_results, task_queue, is_running, processor_pc,
                   tasks_to_execute, exec_pc, now, execute_calls,
                   result_stores, registrations, setup_pc>>

\* Orchestrator.get_agent_status: the dict built from an AgentInfo.
agent_status_report(info) ==
    [status |-> info.status,
     current_tasks |-> Len(info.current_tasks),
     total_tasks_completed |-> info.total_tasks_completed,
     error_count |-> info.error_count]

\* What get_agent_status returns for a name it does not know (None).
NoAgentStatus ==
    [status |-> None, current_tasks |-> 0, total_tasks_completed |-> 0,
     error_count |-> 0]

\* Orchestrator.get_agent_status
get_agent_status(a) ==
    IF ~IsRegistered(a) \/ a \notin agent_instances THEN NoAgentStatus
    ELSE agent_status_report(agent_info[a])

\* Orchestrator.get_system_status
get_system_status ==
    [is_running |-> is_running,
     registered_agents |-> Len(registered_agents),
     active_tasks |-> Cardinality(active_tasks),
     task_queue_size |-> Len(task_queue),
     task_counts |-> [st \in TaskStatus |->
        Cardinality({t \in active_tasks : tasks[t].status = st})],
     agent_counts |-> [st \in AgentStatus |->
        Cardinality({a \in Range(registered_agents) : agent_info[a].status = st})],
     agent_list |-> registered_agents]

Next ==
    \/ \E a \in Agents : register_agent(a)
    \/ \E a \in Agents, outcome \in {"ok", "false", "raise"} :
          setup_returns(a, outcome)
    \/ \E a \in Agents : unregister_agent(a)
    \/ \E id \in {EmptyId, next_id}, kind \in TaskKinds,
          deps \in DependencyChoices(next_id) :
          submit_task(id, kind.type, deps, kind.assigned_agent,
                      ContextGiven(deps))
    \/ start
    \/ task_processor_loop
    \/ \E t \in TaskIds : execute_task_dispatch(t)
    \/ \E t \in TaskIds, outcome \in {"success", "failure", "raise"} :
          execute_task_return(t, outcome)
    \/ gather_returns

\* The calls of the orchestrator and its task-processing loop while the
\* clock stands at the time of start(): until time passes an iteration of
\* _heartbeat_loop writes the last_heartbeat the agents already have and
\* _cleanup_old_tasks finds no task older than the retention window, so both
\* loops leave the state as it is.
Spec == Init /\ [][Next]_vars

\* The orchestrator with its three loops and the clock: agents whose setup()
\* succeeds and that stay registered, tasks of every kind and with every
\* outcome.
NextMaintenance ==
    \/ \E a \in Agents : register_agent(a)
    \/ \E a \in Agents : setup_returns(a, "ok")
    \/ \E id \in {EmptyId, next_id}, kind \in TaskKinds,
          deps \in DependencyChoices(next_id) :
          submit_task(id, kind.type, deps, kind.assigned_agent,
                      ContextGiven(deps))
    \/ start
    \/ task_processor_loop
    \/ \E t \in TaskIds : execute_task_dispatch(t)
    \/ \E t \in TaskIds, outcome \in {"success", "failure", "raise"} :
          execute_task_return(t, outcome)
    \/ gather_returns
    \/ cleanup_old_tasks
    \/ heartbeat_loop
    \/ \E d \in ClockSteps : advance_clock(d)

MaintenanceSpec == Init /\ [][NextMaintenance]_vars

\* The orchestrator whose tasks come from create_workflow.
NextWorkflow ==
    \/ \E a \in Agents : register_agent(a)
    \/ \E a \in Agents, outcome \in {"ok", "false", "raise"} :
          setup_returns(a, outcome)
    \/ \E a \in Agents : unregister_agent(a)
    \/ \E mode \in ExecutionModes, steps \in WorkflowSteps :
          create_workflow(mode, steps)
    \/ \E w \in 1..MaxWorkflows : get_workflow_status(w)
    \/ start
    \/ task_processor_loop
    \/ \E t \in TaskIds : execute_task_dispatch(t)
    \/ \E t \in TaskIds, outcome \in {"success", "failure", "raise"} :
          execute_task_return(t, outcome)
    \/ gather_returns
    \/ cleanup_old_tasks
    \/ heartbeat_loop
    \/ \E d \in ClockSteps : advance_clock(d)

WorkflowSpec == Init /\ [][NextWorkflow]_vars

\* The heartbeat monitoring alone: the agents register while the
\* orchestrator is built, at time 0, and give no sign of life afterwards; the
\* loop runs and time passes in steps of heartbeat_interval (the loop's
\* sleep) or of more than twice the interval (a late iteration).
HeartbeatClockSteps == {heartbeat_interval, 2 * heartbeat_interval + 1}

MaxHeartbeatClock == 5 * heartbeat_interval

NextHeartbeat ==
    \/ \E a \in Agents : now = 0 /\ register_agent(a)
    \/ \E a \in Agents, outcome \in {"ok", "raise"} :
          now = 0 /\ setup_returns(a, outcome)
    \/ start
    \/ heartbeat_loop
    \/ \E d \in HeartbeatClockSteps :
          now + d <= MaxHeartbeatClock /\ advance_clock(d)

HeartbeatSpec == Init /\ [][NextHeartbeat]_vars

\* ------------------------------------------------------------ task router
\* TaskRouter (src/ai-agent-framework/src/core/task_router.py).  A score is
\* an integer number of 1/ScoreScale; with the weights in tenths a weighted
\* sum is a number of 1/(10 * ScoreScale).  ScoreScale is a multiple of every
\* denominator the inputs below produce, so each division is exact.
ScoreScale == 9 * 1000

\* self.config: the ceiling and the weights, in tenths.
max_agent_workload_ratio == 8
priority_weight == 4
workload_weight == 3
capability_weight == 3
performance_weight == 1
enable_load_balancing == TRUE
enable_priority_boosting == TRUE

\* Number of find_best_agent calls on one task and one agent map.
MaxCalls == 2

\* AgentRegistration of the agents given to the router.
RouterRegistrations ==
    {[supported_task_types |-> {"read_file", "list_directory"},
      capabilities |-> {"file_operations", "directory_operations"},
      priority |-> 7, max_concurrent_tasks |-> 3],
     [supported_task_types |-> {"read_file", "list_directory"},
      capabilities |-> {"file_operations"},
      priority |-> 5, max_concurrent_tasks |-> 5],
     [supported_task_types |-> {"read_file", "list_directory"},
      capabilities |-> {"file_operations", "directory_operations"},
      priority |-> 7, max_concurrent_tasks |-> 20]}

\* len(info.current_tasks) of an agent with the given limit.
LoadChoices(max_load) == {0, 1, max_load - 1, max_load}

\* total_tasks_completed and error_count of an agent.
HistoryChoices ==
    {[total_tasks_completed |-> 0, error_count |-> 0],
     [total_tasks_completed |-> 2, error_count |-> 1]}

\* AgentInfo as the router reads it.
AgentInfos ==
    {[status |-> st, registration |-> reg, current_load |-> load,
      total_tasks_completed |-> h.total_tasks_completed,
      error_count |-> h.error_count] :
        st \in AgentStatus, reg \in RouterRegistrations,
        load \in 0..20, h \in HistoryChoices}

RouterAgentInfos ==
    {info \in AgentInfos :
        info.current_load \in LoadChoices(info.registration.max_concurrent_tasks)}

\* The agent maps given to the router: up to two names, in either order.
AgentMaps ==
    {<<>>}
    \cup {<<[name |-> a, info |-> i]>> : a \in Agents, i \in RouterAgentInfos}
    \cup {m \in {<<[name |-> a, info |-> i], [name |-> b, info |-> j]>> :
                     a \in Agents, b \in Agents,
                     i \in RouterAgentInfos, j \in RouterAgentInfos} :
            m[1].name # m[2].name}

\* The tasks given to the router: Task.priority is 0 unless the caller sets
\* it.
RouterTasks ==
    [type : {"read_file", "list_directory", "create_task"},
     priority : {0, 8},
     assigned_agent : {None} \cup Agents]

\* available_agents.get(agent_name): the position in the map, 0 when absent.
agent_position(agents, agent_name) ==
    IF \E i \in 1..Len(agents) : agents[i].name = agent_name
    THEN CHOOSE i \in 1..Len(agents) : agents[i].name = agent_name
    ELSE 0

\* Variant: the hard limit only, without the workload ceiling.
can_agent_handle_task_hard_cap(agent_name, task, agents) ==
    LET k == agent_position(agents, agent_name) IN
    IF k = 0 THEN FALSE
    ELSE LET info == agents[k].info IN
         /\ info.status = HEALTHY
         /\ task.type \in info.registration.supported_task_types
         /\ info.current_load
               < info.registration.max_concurrent_tasks

\* TaskRouter._can_agent_handle_task
can_agent_handle_task(agent_name, task, agents) ==
    LET k == agent_position(agents, agent_name) IN
    IF k = 0 THEN FALSE
    ELSE LET info == agents[k].info
             current_load == info.current_load
             max_load == info.registration.max_concurrent_tasks
         IN IF info.status # HEALTHY THEN FALSE
            ELSE IF task.type \notin info.registration.supported_task_types
                 THEN FALSE
            ELSE IF current_load >= max_load THEN FALSE
            \* load_ratio >= config["max_agent_workload_ratio"]
            ELSE IF current_load * 10 >= max_agent_workload_ratio * max_load
                 THEN FALSE
            ELSE TRUE

\* TaskRouter._find_capable_agents: the capable names, in map order.
find_capable_agents(task, agents) ==
    LET capable(entry) == can_agent_handle_task(entry.name, task, agents)
        entries == SelectSeq(agents, capable)
    IN [i \in 1..Len(entries) |-> entries[i].name]

\* TaskRouter._extract_task_capabilities: the rows of capability_mapping for
\* the task types in use; a type without a row needs nothing.
extract_task_capabilities(type) ==
    CASE type = "read_file" -> {"file_operations"}
      [] type = "write_file" -> {"file_operations"}
      [] type = "list_directory" -> {"file_operations", "directory_operations"}
      [] type = "create_task" -> {"task_management"}
      [] OTHER -> {}

\* TaskRouter._calculate_capability_score
calculate_capability_score(task, info) ==
    LET task_capabilities == extract_task_capabilities(task.type)
        matched == Cardinality(task_capabilities
                                  \cap info.registration.capabilities)
        needed == Cardinality(task_capabilities)
    IN IF task.type \notin info.registration.supported_task_types THEN 0
       ELSE IF needed = 0 THEN (ScoreScale * 8) \div 10
       ELSE IF matched = needed THEN ScoreScale
       ELSE IF 2 * matched >= needed
            THEN (ScoreScale * 6) \div 10
                    + (ScoreScale * 4 * matched) \div (10 * needed)
       ELSE (ScoreScale * 6 * matched) \div (10 * needed)

\* The test of the under-0.5 bonus of _calculate_workload_score.
load_balanced(info) ==
    /\ info.registration.max_concurrent_tasks > 0
    /\ enable_load_balancing
    /\ 2 * info.current_load < info.registration.max_concurrent_tasks

\* TaskRouter._calculate_workload_score
calculate_workload_score(info) ==
    LET current_load == info.current_load
        max_load == info.registration.max_concurrent_tasks
    IN IF max_load <= 0 THEN 0
       ELSE LET workload_score ==
                   ScoreScale - (ScoreScale * current_load) \div max_load
                with_bonus == IF load_balanced(info)
                              THEN workload_score + ScoreScale \div 10
                              ELSE workload_score
            IN IF with_bonus < ScoreScale THEN with_bonus ELSE ScoreScale

\* The test of the boosted branch of _calculate_priority_score.
priority_boosted(task, info) ==
    task.priority >= 7 /\ info.registration.priority >= 7

\* TaskRouter._calculate_priority_score
calculate_priority_score(task, info) ==
    LET task_priority == task.priority
        agent_priority == info.registration.priority
        norm(p) == IF p >= 1 THEN (ScoreScale * (p - 1)) \div 9
                   ELSE ScoreScale \div 2
        diff == norm(task_priority) - norm(agent_priority)
        priority_diff == IF diff >= 0 THEN diff ELSE 0 - diff
        priority_score ==
            IF task_priority >= 7 /\ agent_priority >= 7 THEN ScoreScale
            ELSE IF task_priority <= 3 /\ agent_priority <= 3
                 THEN (ScoreScale * 8) \div 10
            ELSE ScoreScale - priority_diff
    IN IF priority_score > 0 THEN priority_score ELSE 0

\* TaskRouter._calculate_performance_score
calculate_performance_score(info) ==
    LET total_completed == info.total_tasks_completed
        error_count == info.error_count
    IN IF total_completed = 0 THEN ScoreScale \div 2
       ELSE LET rate == (ScoreScale * (total_completed - error_count))
                           \div total_completed
                success_rate == IF rate > 0 THEN rate ELSE 0
                experience == (ScoreScale * total_completed) \div 100
                experience_weight == IF experience < ScoreScale
                                     THEN experience ELSE ScoreScale
                performance_score == (success_rate * 8) \div 10
                                        + (experience_weight * 2) \div 10
            IN IF performance_score < ScoreScale
               THEN performance_score ELSE ScoreScale

\* TaskRouter._calculate_agent_score: the weighted sum.  The code divides it
\* by the sum of the weights, the same for every agent of a call, which
\* leaves the order of the scores as it is.
calculate_agent_score(task, info) ==
    calculate_capability_score(task, info) * capability_weight
    + calculate_workload_score(info) * workload_weight
    + calculate_priority_score(task, info) * priority_weight
    + calculate_performance_score(info) * performance_weight

\* Variant: among equal scores the later one comes first.
RECURSIVE sort_by_score_later_first(_)
sort_by_score_later_first(scored) ==
    IF scored = <<>> THEN <<>>
    ELSE LET rest == sort_by_score_later_first(Tail(scored))
             above(x) == x.score >= Head(scored).score
             below(x) == ~above(x)
         IN SelectSeq(rest, above) \o <<Head(scored)>> \o SelectSeq(rest, below)

\* scored_agents.sort(key=score, reverse=True): highest first; the sort is
\* stable, so equal scores keep their order.
RECURSIVE sort_by_score(_)
sort_by_score(scored) ==
    IF scored = <<>> THEN <<>>
    ELSE LET rest == sort_by_score(Tail(scored))
             above(x) == x.score > Head(scored).score
             below(x) == ~above(x)
         IN SelectSeq(rest, above) \o <<Head(scored)>> \o SelectSeq(rest, below)

\* TaskRouter._score_agents: (name, score) of the capable agents, ranked.
score_agents(task, capable_agents, agents) ==
    sort_by_score(
        [i \in 1..Len(capable_agents) |->
            [name |-> capable_agents[i],
             score |-> calculate_agent_score(task,
                 agents[agent_position(agents, capable_agents[i])].info)]])

\* Variant: the pin is not looked at.
find_best_agent_unpinned(task, agents) ==
    LET capable_agents == find_capable_agents(task, agents)
    IN IF capable_agents = <<>> THEN None
       ELSE score_agents(task, capable_agents, agents)[1].name

\* Variant: a pinned agent that cannot take the task ends the search.
find_best_agent_fails_on_pin(task, agents) ==
    IF task.assigned_agent # None
    THEN IF can_agent_handle_task(task.assigned_agent, task, agents)
         THEN task.assigned_agent ELSE None
    ELSE find_best_agent_unpinned(task, agents)

\* What TaskRouter.find_best_agent returns.
find_best_agent_returns(task, agents) ==
    IF /\ task.assigned_agent # None
       /\ can_agent_handle_task(task.assigned_agent, task, agents)
    THEN task.assigned_agent
    ELSE LET capable_agents == find_capable_agents(task, agents)
         IN IF capable_agents = <<>> THEN None
            ELSE score_agents(task, capable_agents, agents)[1].name

\* Whether find_best_agent gets as far as scoring.
reaches_scoring(task, agents) ==
    /\ ~(/\ task.assigned_agent # None
         /\ can_agent_handle_task(task.assigned_agent, task, agents))
    /\ find_capable_agents(task, agents) # <<>>

\* self.stats after a find_best_agent call.
stats_after(stats, task, agents) ==
    LET result == find_best_agent_returns(task, agents)
        scored == IF reaches_scoring(task, agents)
                  THEN {i \in 1..Len(agents) :
                          can_agent_handle_task(agents[i].name, task, agents)}
                  ELSE {}
    IN [total_routed |-> stats.total_routed + 1,
        successful_matches |-> stats.successful_matches
                                 + (IF result # None THEN 1 ELSE 0),
        failed_matches |-> stats.failed_matches
                             + (IF result = None THEN 1 ELSE 0),
        load_balanced_routes |-> stats.load_balanced_routes
            + Cardinality({i \in scored : load_balanced(agents[i].info)}),
        priority_boosted_routes |-> stats.priority_boosted_routes
            + Cardinality({i \in scored :
                 enable_priority_boosting
                 /\ priority_boosted(task, agents[i].info)})]

\* TaskRouter.find_best_agent, called on the same task and agent map.
find_best_agent ==
    /\ Len(returned) < MaxCalls
    /\ returned' = Append(returned,
                          find_best_agent_returns(routed_task, available_agents))
    /\ router_stats' = stats_after(router_stats, routed_task, available_agents)
    /\ UNCHANGED <<routed_task, available_agents, orchestrator_vars,
                   context_vars>>

\* A router with no call yet, and the task and the agent map of its calls.
InitRouter ==
    /\ InitOrchestrator
    /\ router_stats = NewRouterStats
    /\ routed_task \in RouterTasks
    /\ available_agents \in AgentMaps
    /\ returned = <<>>
    /\ InitContextManager

NextRouter == find_best_agent

RouterSpec == InitRouter /\ [][NextRouter]_vars

\* -------------------------------------------------------- context manager
\* ContextManager (src/ai-agent-framework/src/core/context_manager.py).  Its
\* methods are synchronous: each call is one step.
\* config["context_ttl_hours"]: the code's default is 24; the TTL is
\* configurable and is set to one hour here.
context_ttl_hours == 1
\* config["auto_cleanup_interval"], seconds
auto_cleanup_interval == 3600
\* Number of ContextManager calls and clock jumps in a run.
MaxContextCalls == 5

ConversationIds == {"c1", "c2"}
Users == {"u1", "u2"}
Keys == {"k1", "k2"}
ContextTasks == {"t1", "t2"}

\* Values of the dicts: two JSON strings, a tuple, and the list json.load
\* gives for the tuple.
TupleValue == "(1, 2)"
ListValue == "[1, 2]"
Values == {"v1", "v2", TupleValue}

\* Jumps of the wall clock between calls: 10, 50 and 61 minutes.
ContextClockSteps == {600, 3000, 3060, 3660}

\* dict.update(other)
DictUpdate(d, other) ==
    [k \in DOMAIN d \cup DOMAIN other |->
        IF k \in DOMAIN other THEN other[k] ELSE d[k]]

\* d[key] = value
DictSet(d, key, value) ==
    [k \in DOMAIN d \cup {key} |-> IF k = key THEN value ELSE d[k]]

\* del d[key]
DictDel(d, key) == [k \in DOMAIN d \ {key} |-> d[k]]

\* json.dump followed by json.load on a value: a tuple comes back as a list.
json_value(v) == IF v = TupleValue THEN ListValue ELSE v

\* Variant: every value comes back as it was.
json_dict_identity(d) == d

\* json.dump followed by json.load on a dict of values.
json_dict(d) == [k \in DOMAIN d |-> json_value(d[k])]

\* The same on agent_states, a dict of dicts.
json_agent_states(states) == [a \in DOMAIN states |-> json_dict(states[a])]

\* Context(...) as create_context builds it.
NewContext(user_id, initial_data, t) ==
    [user_id |-> user_id,
     session_data |-> initial_data,
     shared_memory |-> EmptyDict,
     active_tasks |-> <<>>,
     agent_states |-> EmptyDict,
     created_at |-> t,
     updated_at |-> t]

\* ContextManager._touch_context
touch_context(context, t) == [context EXCEPT !.updated_at = t]

\* ContextManager._update_indexes
update_indexes(m, c) ==
    LET context == m.active_contexts[c]
        u == context.user_id
        of_user == IF u \in DOMAIN m.user_id_index
                   THEN m.user_id_index[u] ELSE {}
    IN [m EXCEPT
          !.user_id_index = DictSet(@, u, of_user \cup {c}),
          !.agent_states_index =
              [a \in DOMAIN @ \cup DOMAIN context.agent_states |->
                  IF a \in DOMAIN context.agent_states
                  THEN (IF a \in DOMAIN @ THEN @[a] ELSE {}) \cup {c}
                  ELSE @[a]]]

\* ContextManager._remove_from_indexes: the id is discarded and a key whose
\* set becomes empty is deleted.
remove_from_indexes(m, c, context) ==
    LET discard(index, keys) ==
            LET left == [k \in DOMAIN index |->
                            IF k \in keys THEN index[k] \ {c} ELSE index[k]]
            IN [k \in {x \in DOMAIN left : ~(x \in keys /\ left[x] = {})} |->
                   left[k]]
    IN [m EXCEPT
          !.user_id_index = discard(@, {context.user_id}),
          !.agent_states_index = discard(@, DOMAIN context.agent_states)]

\* The record _persist_context writes, as _load_context reads it back.
persisted_record(context) ==
    [user_id |-> context.user_id,
     session_data |-> json_dict(context.session_data),
     shared_memory |-> json_dict(context.shared_memory),
     agent_states |-> json_agent_states(context.agent_states),
     created_at |-> context.created_at,
     updated_at |-> context.updated_at,
     task_ids |-> context.active_tasks]

\* ContextManager._persist_context of the active context c (persistence is
\* enabled).
persist_context(m, c) ==
    [m EXCEPT !.files = DictSet(@, c, persisted_record(m.active_contexts[c]))]

\* ContextManager._load_context of an existing file: active_tasks is empty.
load_context(m, c) ==
    [user_id |-> m.files[c].user_id,
     session_data |-> m.files[c].session_data,
     shared_memory |-> m.files[c].shared_memory,
     active_tasks |-> <<>>,
     agent_states |-> m.files[c].agent_states,
     created_at |-> m.files[c].created_at,
     updated_at |-> m.files[c].updated_at]

\* Variant: the file of an expired context is deleted.
archive_context_deleted(m, c, t) == [m EXCEPT !.files = DictDel(@, c)]

\* ContextManager._archive_context: the file is renamed into archived/ under
\* a name with the time of the move.
archive_context(m, c, t) ==
    IF c \in DOMAIN m.files
    THEN [m EXCEPT !.files = DictDel(@, c),
                   !.archived = @ \cup {[conversation_id |-> c,
                                         archived_at |-> t,
                                         record |-> m.files[c]]}]
    ELSE m

\* Whether get_context(c) finds a context, in memory or on storage.
context_found(m, c) ==
    c \in DOMAIN m.active_contexts \/ c \in DOMAIN m.files

\* What update_context, set_shared_memory, update_agent_state,
\* add_task_to_context and remove_task_from_context return, and whether
\* get_context returns a context: False or None when get_context finds none.
found_returns(m, c) == context_found(m, c)

\* The manager after ContextManager.get_context(c): an active context is
\* touched, a persisted one is loaded and indexed.
after_get_context(m, c, t) ==
    IF c \in DOMAIN m.active_contexts
    THEN [m EXCEPT !.active_contexts[c] = touch_context(@, t)]
    ELSE IF c \in DOMAIN m.files
    THEN update_indexes(
            [m EXCEPT !.active_contexts = DictSet(@, c, load_context(m, c)),
                      !.stats.contexts_loaded = @ + 1], c)
    ELSE m

\* The order in which the ids are met: the iteration over
\* self._active_contexts.values() and over storage_path.glob("*.json").
ConversationOrder == <<"c1", "c2">>

\* A Context a search returns, with the conversation it belongs to.
Found(c, context) == [conversation_id |-> c, context |-> context]

\* ContextManager._find_persisted_contexts_by_user: every file of
\* storage_path whose user_id is the user's, loaded by _load_context.  The
\* files of archived/ are not met by the glob, and the ids in use do not
\* start with "archived".
find_persisted_contexts_by_user(m, user_id) ==
    LET of_user(c) == c \in DOMAIN m.files /\ m.files[c].user_id = user_id
        ids == SelectSeq(ConversationOrder, of_user)
    IN [i \in 1..Len(ids) |-> Found(ids[i], load_context(m, ids[i]))]

\* ContextManager.find_contexts_by_user (persistence is enabled): the active
\* contexts of the user, then the persisted ones.
find_contexts_by_user(m, user_id) ==
    LET of_user(c) == /\ c \in DOMAIN m.active_contexts
                      /\ m.active_contexts[c].user_id = user_id
        ids == SelectSeq(ConversationOrder, of_user)
    IN [i \in 1..Len(ids) |-> Found(ids[i], m.active_contexts[ids[i]])]
       \o find_persisted_contexts_by_user(m, user_id)

\* Variant: an active id gets a new context as well.
after_create_context_again(m, c, user_id, initial_data, t) ==
    persist_context(
        update_indexes(
           [m EXCEPT !.active_contexts =
                DictSet(@, c, NewContext(user_id, initial_data, t))], c), c)

\* The manager after ContextManager.create_context(c, user_id, initial_data):
\* an active id is left as it is; otherwise the new context is stored,
\* indexed and persisted.
after_create_context(m, c, user_id, initial_data, t) ==
    IF c \in DOMAIN m.active_contexts THEN m
    ELSE persist_context(
            update_indexes(
               [m EXCEPT !.active_contexts =
                    DictSet(@, c, NewContext(user_id, initial_data, t)),
                         !.stats.contexts_created = @ + 1], c), c)

\* What create_context returns: the context under the id after the call.
create_context_returns(m, c, user_id, initial_data, t) ==
    after_create_context(m, c, user_id, initial_data, t).active_contexts[c]

\* The tail of the methods that change a found context: the change, then
\* _touch_context and _persist_context.
changed_context(m, c, context, t) ==
    persist_context(
        [m EXCEPT !.active_contexts[c] = touch_context(context, t)], c)

\* The context update_context leaves: dict.update on the three maps, extend
\* on the task list.
updated_context(context, updates) ==
    [context EXCEPT
       !.session_data = IF "session_data" \in DOMAIN updates
                        THEN DictUpdate(@, updates.session_data) ELSE @,
       !.shared_memory = IF "shared_memory" \in DOMAIN updates
                         THEN DictUpdate(@, updates.shared_memory) ELSE @,
       !.agent_states = IF "agent_states" \in DOMAIN updates
                        THEN DictUpdate(@, updates.agent_states) ELSE @,
       !.active_tasks = IF "active_tasks" \in DOMAIN updates
                        THEN @ \o updates.active_tasks ELSE @]

\* ContextManager.update_context
after_update_context(m, c, updates, t) ==
    LET found == after_get_context(m, c, t) IN
    IF ~context_found(m, c) THEN found
    ELSE changed_context(found, c,
            updated_context(found.active_contexts[c], updates), t)

\* ContextManager.set_shared_memory
after_set_shared_memory(m, c, key, value, t) ==
    LET found == after_get_context(m, c, t) IN
    IF ~context_found(m, c) THEN found
    ELSE [changed_context(found, c,
             [found.active_contexts[c] EXCEPT
                 !.shared_memory = DictSet(@, key, value)], t)
            EXCEPT !.stats.memory_operations = @ + 1]

\* ContextManager.get_shared_memory
after_get_shared_memory(m, c, t) ==
    LET found == after_get_context(m, c, t) IN
    IF ~context_found(m, c) THEN found
    ELSE [found EXCEPT !.stats.memory_operations = @ + 1]

\* What get_shared_memory returns: dict.get(key).
get_shared_memory_returns(m, c, key, t) ==
    LET found == after_get_context(m, c, t) IN
    IF ~context_found(m, c) THEN None
    ELSE IF key \in DOMAIN found.active_contexts[c].shared_memory
         THEN found.active_contexts[c].shared_memory[key]
         ELSE None

\* Variant: the agent's state is replaced, not updated.
agent_state_replaced(context, agent_name, agent_state) ==
    [context EXCEPT !.agent_states = DictSet(@, agent_name, agent_state)]

\* update_agent_state: the agent's dict is created when missing, then
\* updated.
agent_state_updated(context, agent_name, agent_state) ==
    LET old == IF agent_name \in DOMAIN context.agent_states
               THEN context.agent_states[agent_name] ELSE EmptyDict
    IN [context EXCEPT
          !.agent_states = DictSet(@, agent_name, DictUpdate(old, agent_state))]

\* Variant: update_agent_state creates the context of an unknown id.
after_update_agent_state_upsert(m, c, agent_name, agent_state, t) ==
    LET found == IF context_found(m, c) THEN after_get_context(m, c, t)
                 ELSE [m EXCEPT !.active_contexts =
                          DictSet(@, c, NewContext(None, EmptyDict, t))]
    IN changed_context(found, c,
          agent_state_updated(found.active_contexts[c],
                              agent_name, agent_state), t)

\* ContextManager.update_agent_state
after_update_agent_state(m, c, agent_name, agent_state, t) ==
    LET found == after_get_context(m, c, t) IN
    IF ~context_found(m, c) THEN found
    ELSE changed_context(found, c,
            agent_state_updated(found.active_contexts[c],
                                agent_name, agent_state), t)

\* What get_agent_state returns: the agent's dict, absent as a dict with the
\* one key None.
NoAgentState == [n \in {None} |-> None]

get_agent_state_returns(m, c, agent_name, t) ==
    LET found == after_get_context(m, c, t) IN
    IF ~context_found(m, c) THEN NoAgentState
    ELSE IF agent_name \in DOMAIN found.active_contexts[c].agent_states
         THEN found.active_contexts[c].agent_states[agent_name]
         ELSE NoAgentState

\* ContextManager.add_task_to_context
after_add_task_to_context(m, c, task, t) ==
    LET found == after_get_context(m, c, t) IN
    IF ~context_found(m, c) THEN found
    ELSE IF task \in Range(found.active_contexts[c].active_tasks) THEN found
    ELSE changed_context(found, c,
            [found.active_contexts[c] EXCEPT
                !.active_tasks = Append(@, task)], t)

\* ContextManager.remove_task_from_context
after_remove_task_from_context(m, c, task_id, t) ==
    LET found == after_get_context(m, c, t)
        other(task) == task # task_id
    IN IF ~context_found(m, c) THEN found
       ELSE changed_context(found, c,
               [found.active_contexts[c] EXCEPT
                   !.active_tasks = SelectSeq(@, other)], t)

\* Variant: on a conflicting key the target's value stays.
merged_dict_target_wins(target, source) == DictUpdate(source, target)

\* merge_contexts on one map: target.update(source).
merged_dict(target, source) == DictUpdate(target, source)

\* merge_contexts: the target context after the merge of the source.
merged_context(target, source) ==
    LET new_task(task) == task \notin Range(target.active_tasks) IN
    [target EXCEPT
       !.session_data = merged_dict(@, source.session_data),
       !.shared_memory = merged_dict(@, source.shared_memory),
       !.agent_states =
           [a \in DOMAIN @ \cup DOMAIN source.agent_states |->
               IF a \notin DOMAIN source.agent_states THEN @[a]
               ELSE IF a \in DOMAIN @
                    THEN merged_dict(@[a], source.agent_states[a])
                    ELSE source.agent_states[a]],
       !.active_tasks = @ \o SelectSeq(source.active_tasks, new_task)]

\* What merge_contexts returns (context sharing is enabled).
merge_contexts_returns(m, target, source) ==
    context_found(m, target) /\ context_found(m, source)

\* ContextManager.merge_contexts: both get_context calls come first.
after_merge_contexts(m, target, source, t) ==
    LET found == after_get_context(after_get_context(m, target, t), source, t)
    IN IF ~merge_contexts_returns(m, target, source) THEN found
       ELSE [changed_context(found, target,
                merged_context(found.active_contexts[target],
                               found.active_contexts[source]), t)
               EXCEPT !.stats.context_merges = @ + 1]

\* ContextManager._should_cleanup
should_cleanup(m, t) == t - m.last_cleanup >= auto_cleanup_interval

\* cleanup_expired_contexts: the ids it finds expired.
expired_contexts(m, t) ==
    {c \in DOMAIN m.active_contexts :
        t - m.active_contexts[c].updated_at > context_ttl_hours * 3600}

\* cleanup_expired_contexts: pop, _remove_from_indexes and _archive_context
\* for each expired id.
RECURSIVE remove_expired(_, _, _)
remove_expired(m, ids, t) ==
    IF ids = {} THEN m
    ELSE LET c == CHOOSE x \in ids : TRUE
             popped == [m EXCEPT !.active_contexts = DictDel(@, c)]
         IN remove_expired(
               archive_context(
                  remove_from_indexes(popped, c, m.active_contexts[c]), c, t),
               ids \ {c}, t)

\* Variant: the sweep is not throttled.
after_cleanup_unthrottled(m, t) ==
    [remove_expired(m, expired_contexts(m, t), t)
        EXCEPT !.last_cleanup = t,
               !.stats.contexts_expired =
                   @ + Cardinality(expired_contexts(m, t))]

\* ContextManager.cleanup_expired_contexts
after_cleanup_expired_contexts(m, t) ==
    IF ~should_cleanup(m, t) THEN m
    ELSE [remove_expired(m, expired_contexts(m, t), t)
             EXCEPT !.last_cleanup = t,
                    !.stats.contexts_expired =
                        @ + Cardinality(expired_contexts(m, t))]

\* What cleanup_expired_contexts returns.
cleanup_expired_contexts_returns(m, t) ==
    IF ~should_cleanup(m, t) THEN 0
    ELSE Cardinality(expired_contexts(m, t))

\* A new ContextManager on the storage_path of the old one.
restarted(m, t) ==
    [NewContextManager EXCEPT !.last_cleanup = t,
                              !.files = m.files,
                              !.archived = m.archived]

\* initial_data of create_context: none, or a dict with a tuple in it.
InitialDataChoices ==
    {EmptyDict, ("k1" :> "v1") @@ ("k2" :> TupleValue)}

\* updates of update_context.
UpdateChoices ==
    {[session_data |-> ("k1" :> "v2"),
      agent_states |-> ("agent_b" :> ("k1" :> "v1"))],
     [shared_memory |-> ("k2" :> "v1")],
     [active_tasks |-> <<"t2">>]}

\* key and value of set_shared_memory.
SharedMemoryWrites ==
    {<<"k1", "v1">>, <<"k1", "v2">>, <<"k2", TupleValue>>}

\* agent_state of update_agent_state.
AgentStateChoices == {("k1" :> "v1"), ("k2" :> "v2")}

\* A ContextManager method is called at the time now.
context_call(call, after) ==
    /\ context_calls < MaxContextCalls
    /\ context_calls' = context_calls + 1
    /\ last_call' = call
    /\ context_manager' = after
    /\ UNCHANGED <<router_vars, orchestrator_vars>>

create_context(c, user_id, initial_data) ==
    context_call(Call("create_context", c, None),
                 after_create_context(context_manager, c, user_id,
                                      initial_data, now))

get_context(c) ==
    context_call(Call("get_context", c, None),
                 after_get_context(context_manager, c, now))

update_context(c, updates) ==
    context_call(Call("update_context", c, None),
                 after_update_context(context_manager, c, updates, now))

set_shared_memory(c, key, value) ==
    context_call(Call("set_shared_memory", c, None),
                 after_set_shared_memory(context_manager, c, key, value, now))

get_shared_memory(c, key) ==
    context_call(Call("get_shared_memory", c, None),
                 after_get_shared_memory(context_manager, c, now))

update_agent_state(c, agent_name, agent_state) ==
    context_call(Call("update_agent_state", c, None),
                 after_update_agent_state(context_manager, c, agent_name,
                                          agent_state, now))

\* get_agent_state changes what its get_context changes.
get_agent_state(c, agent_name) ==
    context_call(Call("get_agent_state", c, None),
                 after_get_context(context_manager, c, now))

add_task_to_context(c, task) ==
    context_call(Call("add_task_to_context", c, None),
                 after_add_task_to_context(context_manager, c, task, now))

remove_task_from_context(c, task_id) ==
    context_call(Call("remove_task_from_context", c, None),
                 after_remove_task_from_context(context_manager, c, task_id,
                                                now))

merge_contexts(target, source) ==
    context_call(Call("merge_contexts", target, source),
                 after_merge_contexts(context_manager, target, source, now))

cleanup_expired_contexts ==
    context_call(Call("cleanup_expired_contexts", None, None),
                 after_cleanup_expired_contexts(context_manager, now))

\* The process ends and a new ContextManager is built on the same
\* storage_path.
restart_context_manager ==
    context_call(Call("__init__", None, None),
                 restarted(context_manager, now))

\* Time passes between two calls.
context_clock(d) ==
    /\ context_calls < MaxContextCalls
    /\ context_calls' = context_calls + 1
    /\ now' = now + d
    /\ UNCHANGED <<context_manager, last_call, router_vars,
                   orchestrator_vars_but_now>>

InitContext == InitOrchestrator /\ InitRouterIdle /\ InitContextManager

NextContext ==
    \/ \E c \in ConversationIds, u \in Users, d \in InitialDataChoices :
          create_context(c, u, d)
    \/ \E c \in ConversationIds : get_context(c)
    \/ \E c \in ConversationIds, updates \in UpdateChoices :
          update_context(c, updates)
    \/ \E c \in ConversationIds, w \in SharedMemoryWrites :
          set_shared_memory(c, w[1], w[2])
    \/ \E c \in ConversationIds : get_shared_memory(c, "k1")
    \/ \E c \in ConversationIds, d \in AgentStateChoices :
          update_agent_state(c, "agent_a", d)
    \/ \E c \in ConversationIds : get_agent_state(c, "agent_a")
    \/ \E c \in ConversationIds : add_task_to_context(c, "t1")
    \/ \E c \in ConversationIds : remove_task_from_context(c, "t1")
    \/ \E target \in ConversationIds, source \in ConversationIds :
          merge_contexts(target, source)
    \/ cleanup_expired_contexts
    \/ restart_context_manager
    \/ \E d \in ContextClockSteps : context_clock(d)

ContextSpec == InitContext /\ [][NextContext]_vars

\* ===================================================================
\* Properties
\* ===================================================================
Known(t) == t \in DOMAIN tasks

\* The step sets task t RUNNING.
BecomesRunning(t) ==
    /\ Known(t)
    /\ tasks[t].status # RUNNING
    /\ tasks'[t].status = RUNNING

\* C1 (as stated): a task with a non-empty dependency list is set RUNNING
\* only if, at that moment, every id in its dependencies names a task of the
\* task table (_active_tasks) whose status is COMPLETED.
C1_RunningOnlyWithKnownCompletedDeps ==
    [][\A t \in TaskIds :
          (BecomesRunning(t) /\ tasks[t].dependencies # {}) =>
             \A d \in tasks[t].dependencies :
                d \in active_tasks /\ tasks[d].status = COMPLETED]_vars

\* C1 (amended): a task with a non-empty dependency list is set RUNNING only
\* if every id in its dependencies names a submitted task whose status is
\* COMPLETED; the dependency was in the task table at the scan of the tick,
\* and may have been removed from it by _cleanup_old_tasks since.
C1_RunningOnlyWithCompletedDeps ==
    [][\A t \in TaskIds :
          (BecomesRunning(t) /\ tasks[t].dependencies # {}) =>
             \A d \in tasks[t].dependencies :
                Known(d) /\ tasks[d].status = COMPLETED]_vars

\* A task with a dependency is RUNNING.
C1_Witness ==
    \E t \in DOMAIN tasks :
        /\ tasks[t].status = RUNNING
        /\ tasks[t].dependencies # {}

\* C2: at every moment the number of RUNNING tasks is at most
\* config["max_concurrent_tasks"].
C2_RunningWithinCeiling ==
    Cardinality({t \in DOMAIN tasks : tasks[t].status = RUNNING})
        <= max_concurrent_tasks

\* The ceiling is reached while a third task was ready in the same scan.
C2_Witness ==
    /\ Cardinality({t \in DOMAIN tasks : tasks[t].status = RUNNING})
          = max_concurrent_tasks
    /\ \E t \in DOMAIN tasks :
          /\ tasks[t].status = PENDING
          /\ tasks[t].dependencies = {}
          /\ t \notin Range(task_queue)

\* d is a dependency of t, directly or through other submitted tasks.
RECURSIVE DependsWithin(_, _, _)
DependsWithin(t, d, n) ==
    /\ Known(t)
    /\ \/ d \in tasks[t].dependencies
       \/ /\ n > 1
          /\ \E m \in tasks[t].dependencies : DependsWithin(m, d, n - 1)

DependsOn(t, d) == DependsWithin(t, d, MaxTasks)

\* C3: when a dependency has ended FAILED, every task that depends on it,
\* directly or transitively, is PENDING (FAILED is final, so it stays so).
C3_DependentsOfFailedStayPending ==
    \A t \in DOMAIN tasks : \A d \in DOMAIN tasks :
        (DependsOn(t, d) /\ tasks[d].status = FAILED) =>
            tasks[t].status = PENDING

\* Step 1 of a chain of three raised in execution; the loop has finished the
\* tick and steps 2 and 3 are still PENDING.
C3_Witness ==
    /\ Len(tasks) = 3
    /\ tasks[1].status = FAILED /\ tasks[1].error = ExceptionText
    /\ tasks[2].dependencies = {1} /\ tasks[2].status = PENDING
    /\ tasks[3].dependencies = {2} /\ tasks[3].status = PENDING
    /\ processor_pc = "sleep"
    /\ now > tasks[1].execution_end

\* The first step of _execute_task(t) finds no agent.
NoAgentFound(t) ==
    /\ Known(t)
    /\ exec_pc[t] = "created"
    /\ exec_pc'[t] # "created"
    /\ find_suitable_agent(t) = None

\* C4: a task for which no suitable agent exists when it is taken from the
\* queue becomes FAILED with the 'no suitable agent' error without any agent
\* being called; it is not in the queue, its record never changes again (it
\* is never dispatched, whoever registers later), and the loop goes on with
\* the tick.
C4_NoAgentFailsForGood ==
    [][\A t \in TaskIds :
          /\ NoAgentFound(t) =>
                /\ tasks'[t].status = FAILED
                /\ tasks'[t].error = NoAgentError
                /\ exec_pc'[t] = "done"
                /\ processor_pc' = "gather"
          /\ (Known(t) /\ tasks[t].error = NoAgentError) =>
                /\ tasks'[t] = tasks[t]
                /\ t \notin Range(task_queue')
                /\ exec_pc'[t] \in {"done", "none"}
                /\ execute_calls'[t] = 0]_vars

\* A task failed for lack of an agent, the tick is over, and an agent that
\* would suit it is registered now.
C4_Witness ==
    \E t \in DOMAIN tasks : \E a \in Agents :
        /\ tasks[t].status = FAILED
        /\ tasks[t].error = NoAgentError
        /\ IsRegistered(a) /\ is_suitable(a, t)
        /\ processor_pc = "sleep"

\* agent.execute_task raises for the RUNNING task t in this step.
RaisedIn(t) ==
    /\ Known(t)
    /\ tasks[t].status = RUNNING
    /\ tasks'[t].error = ExceptionText

\* What C5 says of the task, of current_tasks and of the loop when
\* agent.execute_task raises for t: the task becomes FAILED with the exception
\* text as error, its id is in the current_tasks of no registration of its
\* agent, and the loop and the other coroutines of the tick are where they
\* were.
ExceptionFailsTaskOnly(t) ==
    LET a == tasks[t].assigned_agent IN
    /\ tasks'[t].status = FAILED
    /\ tasks'[t].error = ExceptionText
    /\ t \notin Range(agent_info'[a].current_tasks)
    /\ processor_pc' = "gather"
    /\ tasks_to_execute' = tasks_to_execute
    /\ task_queue' = task_queue
    /\ \A u \in DOMAIN tasks \ {t} :
          tasks'[u] = tasks[u] /\ exec_pc'[u] = exec_pc[u]

ErrorCounted(t) ==
    LET a == tasks[t].assigned_agent IN
    agent_info'[a].error_count = agent_info[a].error_count + 1

\* C5 (as stated): when agent.execute_task raises for a RUNNING task, the
\* task becomes FAILED with the exception text as error, its id is removed
\* from the agent's current_tasks, the agent's error_count goes up by one,
\* and the loop goes on with the other tasks of the tick.
C5_ExceptionFailsTaskAndCountsError ==
    [][\A t \in TaskIds :
          RaisedIn(t) => (ExceptionFailsTaskOnly(t) /\ ErrorCounted(t))]_vars

\* C5 (amended): the same, with the error_count going up by one when the
\* registration that took the task is still in the registry; after
\* unregister_agent nothing is counted.
C5_ExceptionFailsTaskOnly ==
    [][\A t \in TaskIds :
          RaisedIn(t) =>
             /\ ExceptionFailsTaskOnly(t)
             /\ captured_info_live(t) => ErrorCounted(t)
             /\ ~captured_info_live(t) => agent_info' = agent_info]_vars

\* A task has failed by an exception on a registered agent, whose error is
\* counted, while another task of the same tick is still executing.
C5_Witness ==
    \E t \in Range(tasks_to_execute) : \E u \in Range(tasks_to_execute) :
        /\ tasks[t].error = ExceptionText
        /\ IsRegistered(tasks[t].assigned_agent)
        /\ agent_info[tasks[t].assigned_agent].error_count = 1
        /\ exec_pc[u] = "awaiting"

\* Task t is where the loop can still pick it up: in the queue, or among the
\* tasks of the tick under way.
WithinReach(t) == t \in Range(task_queue) \cup Range(tasks_to_execute)

\* C6: every PENDING task without dependencies eventually leaves PENDING, so
\* it is always where the loop can still pick it up.
C6_PendingReadyTaskWithinReach ==
    \A t \in active_tasks :
        (tasks[t].status = PENDING /\ tasks[t].dependencies = {}) =>
            WithinReach(t)

\* What the code does instead: a PENDING task that is out of reach stays
\* PENDING and out of reach for good.
OutOfReachIsForever ==
    [][\A t \in DOMAIN tasks :
          (tasks[t].status = PENDING /\ ~WithinReach(t)) =>
             (tasks'[t].status = PENDING /\ t \notin Range(task_queue')
                /\ t \notin Range(tasks_to_execute'))]_vars

StatusChange(t) == <<tasks[t].status, tasks'[t].status>>

StateMachine ==
    {<<PENDING, RUNNING>>, <<RUNNING, COMPLETED>>, <<RUNNING, FAILED>>,
     <<PENDING, CANCELLED>>, <<RUNNING, CANCELLED>>}

C8_AtMostOneExecution ==
    [][\A t \in TaskIds :
          /\ execute_calls'[t] <= 1
          /\ result_stores'[t] <= 1
          /\ (Known(t) /\ t \notin Range(task_queue)) =>
                t \notin Range(task_queue')]_vars

\* A task was executed once and has its result, and a later tick is under
\* way.
C8_Witness ==
    \E t \in DOMAIN tasks :
        /\ execute_calls[t] = 1
        /\ result_stores[t] = 1
        /\ exec_pc[t] = "none"
        /\ processor_pc = "gather"

\* Orchestrator.get_task_result
get_task_result(t) == task_results[t]

\* C9: for every task of the task table that is COMPLETED or FAILED,
\* get_task_result gives a TaskResult whose success flag is true exactly
\* when the task is COMPLETED, with an error when it is FAILED.
C9_TerminalTaskHasResult ==
    \A t \in active_tasks :
        tasks[t].status \in {COMPLETED, FAILED} =>
            /\ get_task_result(t) # NoResult
            /\ get_task_result(t).success = (tasks[t].status = COMPLETED)
            /\ tasks[t].status = FAILED => get_task_result(t).error # None

\* C10: when setup() raises or returns false, register_agent returns false
\* and the agent name is in neither the registry nor the instance map.
C10_FailedSetupLeavesNoRegistration ==
    [][\A a \in Agents : \A outcome \in {"false", "raise"} :
          setup_returns(a, outcome) =>
             /\ ~register_agent_returns(outcome)
             /\ a \notin Range(registered_agents')
             /\ a \notin agent_instances']_vars

\* The registration of a after a register_agent call that returned true, as
\* C11 describes it.
RegisteredHealthyAndIdle(a) ==
    /\ IsRegistered(a)
    /\ a \in agent_instances
    /\ agent_info[a].status = HEALTHY
    /\ agent_info[a].current_tasks = <<>>
    /\ agent_info[a].error_count = 0
    /\ agent_info[a].total_tasks_completed = 0
    /\ get_agent_status(a) # NoAgentStatus
    /\ get_agent_status(a).status = "healthy"
    /\ get_system_status.registered_agents = Cardinality(agent_instances)
    /\ Range(get_system_status.agent_list) = agent_instances

\* C11: when register_agent(agent) returns true, the agent is in the registry
\* with status HEALTHY, empty current_tasks and zero error and completed
\* counters, get_agent_status reports 'healthy', and get_system_status counts
\* exactly the registered agents.  Stated for the calls during which nobody
\* unregistered the name.
C11_RegisteredAgentHealthyAndIdle ==
    [][\A a \in Agents : \A outcome \in {"ok", "false", "raise"} :
          (/\ setup_returns(a, outcome)
           /\ register_agent_returns(outcome)
           /\ IsRegistered(a)) =>
             RegisteredHealthyAndIdle(a)']_vars

\* What the code guarantees of a register_agent call that returned true while
\* the name stayed registered.
RegisteredAgentHealthy ==
    [][\A a \in Agents : \A outcome \in {"ok", "false", "raise"} :
          (/\ setup_returns(a, outcome)
           /\ register_agent_returns(outcome)
           /\ IsRegistered(a)) =>
             (/\ IsRegistered(a)
              /\ agent_info[a].status = HEALTHY
              /\ get_agent_status(a).status = "healthy"
              /\ get_system_status.registered_agents
                    = Cardinality(agent_instances))']_vars

\* unregister_agent(a) called now, and called once more right after.
UnregisterTwice(a) ==
    LET first == unregister_effect(registry_state, a)
        second == unregister_effect(first.state, a)
    IN /\ a \in agent_instances =>
             /\ first.returns
             /\ a \notin Range(first.state.registered_agents)
             /\ a \notin first.state.agent_instances
             /\ first.state.agent_current_tasks[a] = <<>>
             /\ \A b \in Agents \ {a} :
                   /\ first.state.agent_info[b] = agent_info[b]
                   /\ first.state.agent_current_tasks[b] = agent_current_tasks[b]
                   /\ (b \in first.state.agent_instances) = (b \in agent_instances)
             /\ ~second.returns
             /\ second.state = first.state
       /\ a \notin agent_instances =>
             /\ ~first.returns
             /\ first.state = registry_state

\* The step dispatches task t to agent a.
DispatchedTo(t, a) ==
    /\ BecomesRunning(t)
    /\ tasks'[t].assigned_agent = a

\* C12: unregister_agent on a registered name returns true, stops the agent
\* and removes it from the registry and from the instance map, and no task is
\* dispatched to a name that is in neither; on an unknown name it returns
\* false and changes nothing, so a second call in a row returns false and
\* leaves the state of the first.
C12_UnregisterRemovesAgent ==
    /\ [](\A a \in Agents : UnregisterTwice(a))
    /\ [][\A t \in TaskIds : \A a \in Agents :
            DispatchedTo(t, a) =>
               (IsRegistered(a) /\ a \in agent_instances)]_vars

\* agent_a was registered and has been unregistered while it held a task,
\* and a task is RUNNING on agent_b.
C12_Witness ==
    /\ registrations["agent_a"] = 1
    /\ "agent_a" \notin agent_instances
    /\ ~IsRegistered("agent_a")
    /\ \E u \in DOMAIN tasks :
          tasks[u].status = RUNNING /\ tasks[u].assigned_agent = "agent_a"
    /\ \E t \in DOMAIN tasks :
          tasks[t].status = RUNNING /\ tasks[t].assigned_agent = "agent_b"

\* C13: submit_task returns the task's id, generated only when the task
\* brings none, and dispatches nothing: on return the task is in the lookup
\* map as the caller built it (status PENDING), it is the last of the queue
\* behind the tasks that were there, the context, when given, is kept under
\* that id, and no other task, no agent and no coroutine has changed.
C13_SubmitOnlyEnqueues ==
    [][Len(tasks') # Len(tasks) =>
       \A id \in {EmptyId, next_id} : \A kind \in TaskKinds :
       \A deps \in DependencyChoices(next_id) :
          submit_task(id, kind.type, deps, kind.assigned_agent,
                      ContextGiven(deps)) =>
             LET tid == submit_task_returns(id) IN
             /\ tid # EmptyId
             /\ id # EmptyId => tid = id
             /\ id = EmptyId => tid \notin DOMAIN tasks
             /\ tid \in active_tasks'
             /\ tasks'[tid] = NewTask(kind.type, deps, kind.assigned_agent)
             /\ tasks'[tid].status = PENDING
             /\ task_queue' = task_queue \o <<tid>>
             /\ (tid \in active_contexts') = ContextGiven(deps)
             /\ active_contexts' \ {tid} = active_contexts
             /\ \A u \in DOMAIN tasks : tasks'[u] = tasks[u]
             /\ exec_pc' = exec_pc
             /\ processor_pc' = processor_pc
             /\ tasks_to_execute' = tasks_to_execute
             /\ execute_calls' = execute_calls
             /\ agent_info' = agent_info]_vars

\* A task with a context was submitted behind a waiting one while another
\* task was RUNNING; it is the last of the queue, PENDING.
C13_Witness ==
    /\ Len(task_queue) >= 2
    /\ task_queue[Len(task_queue)] \in active_contexts
    /\ tasks[task_queue[Len(task_queue)]].status = PENDING
    /\ \E u \in DOMAIN tasks : tasks[u].status = RUNNING

\* The task of step i (from 1) of a workflow.
StepTask(workflow, i) == tasks[workflow.task_ids[i]]

\* C14: a sequential workflow has one task per step, the first without a
\* dependency and every later one depending on exactly the task of the step
\* before it, and a step's task is RUNNING only when the task of the step
\* before it is COMPLETED; a parallel workflow has one task per step, each
\* with empty dependencies.
C14_SequentialStepsChained ==
    \A w \in DOMAIN active_workflows :
        LET workflow == active_workflows[w]
            n == Len(workflow.task_ids)
        IN /\ workflow.execution_mode \in {"sequential", "parallel"} =>
                /\ n = workflow.steps
                /\ \A i \in 1..n : Known(workflow.task_ids[i])
                /\ \A i, j \in 1..n :
                      workflow.task_ids[i] = workflow.task_ids[j] => i = j
           /\ workflow.execution_mode = "sequential" =>
                \A i \in 1..n :
                    /\ i = 1 => StepTask(workflow, i).dependencies = {}
                    /\ i > 1 =>
                          /\ StepTask(workflow, i).dependencies
                                = {workflow.task_ids[i - 1]}
                          /\ StepTask(workflow, i).status = RUNNING =>
                                StepTask(workflow, i - 1).status = COMPLETED
           /\ workflow.execution_mode = "parallel" =>
                \A i \in 1..n : StepTask(workflow, i).dependencies = {}

\* The last step of a three-step sequential workflow is RUNNING.
C14_Witness ==
    \E w \in DOMAIN active_workflows :
        /\ active_workflows[w].execution_mode = "sequential"
        /\ Len(active_workflows[w].task_ids) = 3
        /\ StepTask(active_workflows[w], 3).status = RUNNING

\* The steps of a workflow whose task has the given status.
StepsWith(workflow, status) ==
    {i \in 1..Len(workflow.task_ids) : StepTask(workflow, i).status = status}

\* The dict get_workflow_status returns agrees with the tasks of the workflow.
ReportMatchesTasks(workflow) ==
    LET report == workflow_report(workflow)
    IN /\ report.status = "completed" <=>
             StepsWith(workflow, COMPLETED) = 1..Len(workflow.task_ids)
       /\ StepsWith(workflow, FAILED) # {} => report.status = "partial_failure"
       /\ report.completed_steps = Cardinality(StepsWith(workflow, COMPLETED))
       /\ report.failed_steps = Cardinality(StepsWith(workflow, FAILED))

\* C15: whenever get_workflow_status is called, the status it reports is
\* "completed" exactly when every task of the workflow is COMPLETED and
\* "partial_failure" when at least one is FAILED, and the completed_steps and
\* failed_steps it reports are the numbers of COMPLETED and FAILED tasks of
\* the workflow.
C15_WorkflowStatusFromTasks ==
    [][\A w \in DOMAIN active_workflows :
          get_workflow_status(w) =>
             ReportMatchesTasks(active_workflows[w])]_vars

\* The same, as long as every task of the workflow is still in the task
\* table.
WorkflowStatusFromRetainedTasks ==
    [][\A w \in DOMAIN active_workflows :
          (/\ get_workflow_status(w)
           /\ Range(active_workflows[w].task_ids) \subseteq active_tasks) =>
             ReportMatchesTasks(active_workflows[w])]_vars

\* get_workflow_status is called on a workflow with a COMPLETED and a FAILED
\* task.
C15_Witness ==
    \E w \in DOMAIN active_workflows :
        /\ active_workflows[w].completed_steps > 0
        /\ active_workflows[w].failed_steps > 0
        /\ active_workflows[w].status = "partial_failure"

\* The Orchestrator's registry as the agent map of a find_best_agent call.
registry_as_agent_map ==
    [i \in 1..Len(registered_agents) |->
        LET a == registered_agents[i] IN
        [name |-> a,
         info |-> [status |-> agent_info[a].status,
                   registration |-> registration(a),
                   current_load |-> Len(agent_info[a].current_tasks),
                   total_tasks_completed |-> agent_info[a].total_tasks_completed,
                   error_count |-> agent_info[a].error_count]]]

\* Task t as the task of a find_best_agent call (Task.priority is 0 unless
\* the caller sets it).
task_as_routed(t) ==
    [type |-> tasks[t].type, priority |-> 0,
     assigned_agent |-> tasks[t].assigned_agent]

\* C16: the agent a task is dispatched to is the one find_best_agent returns
\* for the task over the registry of that moment, and a task fails for lack
\* of an agent exactly when find_best_agent returns none.
C16_DispatchRefinesRouter ==
    [][\A t \in TaskIds :
          /\ \A a \in Agents :
                DispatchedTo(t, a) =>
                   find_best_agent_returns(task_as_routed(t),
                                           registry_as_agent_map) = a
          /\ NoAgentFound(t) =>
                find_best_agent_returns(task_as_routed(t),
                                        registry_as_agent_map) = None
          /\ (/\ Known(t)
              /\ exec_pc[t] = "created"
              /\ exec_pc'[t] # "created"
              /\ find_best_agent_returns(task_as_routed(t),
                                         registry_as_agent_map) = None) =>
                tasks'[t].status = FAILED]_vars

\* A task is RUNNING on an agent.
C16_Witness ==
    \E t \in DOMAIN tasks :
        /\ tasks[t].status = RUNNING
        /\ tasks[t].assigned_agent \in Agents

\* The four tests of the claims on an agent of the map.
Qualifies(info, task) ==
    /\ info.status = HEALTHY
    /\ task.type \in info.registration.supported_task_types
    /\ info.current_load < info.registration.max_concurrent_tasks
    /\ info.current_load * 10
          < max_agent_workload_ratio * info.registration.max_concurrent_tasks

\* The entries of the agent map under a name.
Named(a) == {i \in 1..Len(available_agents) : available_agents[i].name = a}

\* The pinned agent of the routed task is in the map and qualifies.
PinQualifies ==
    /\ routed_task.assigned_agent # None
    /\ \E i \in Named(routed_task.assigned_agent) :
          Qualifies(available_agents[i].info, routed_task)

\* C17: when the assigned_agent of the task names an agent that is HEALTHY,
\* supports the task's type, has fewer current tasks than its limit and a
\* load ratio below the workload ceiling, every find_best_agent call returns
\* that agent, whatever the scores of the other agents.
C17_QualifyingPinWins ==
    PinQualifies =>
        \A k \in 1..Len(returned) : returned[k] = routed_task.assigned_agent

\* The pinned agent qualifies, another agent of the map qualifies with a
\* higher score, and a call has returned.
C17_Witness ==
    /\ PinQualifies
    /\ returned # <<>>
    /\ \E i, j \in 1..Len(available_agents) :
          /\ available_agents[i].name = routed_task.assigned_agent
          /\ Qualifies(available_agents[j].info, routed_task)
          /\ calculate_agent_score(routed_task, available_agents[j].info)
                > calculate_agent_score(routed_task, available_agents[i].info)

\* C18: find_best_agent never returns an agent that is not HEALTHY, that does
\* not support the task's type, that has reached max_concurrent_tasks, or
\* whose load ratio is at or above the workload ceiling; when no agent of the
\* map passes the four tests it returns none.
C18_OnlyQualifyingAgentReturned ==
    \A k \in 1..Len(returned) :
        /\ returned[k] # None =>
              \E i \in Named(returned[k]) :
                  Qualifies(available_agents[i].info, routed_task)
        /\ (\A i \in 1..Len(available_agents) :
                ~Qualifies(available_agents[i].info, routed_task)) =>
              returned[k] = None

\* The only agent of the map is HEALTHY, supports the type and is at 4 of 5
\* tasks, and the call returned none.
C18_Witness ==
    /\ Len(available_agents) = 1
    /\ available_agents[1].info.status = HEALTHY
    /\ routed_task.type
          \in available_agents[1].info.registration.supported_task_types
    /\ available_agents[1].info.current_load = 4
    /\ available_agents[1].info.registration.max_concurrent_tasks = 5
    /\ returned # <<>>
    /\ returned[1] = None

\* The qualifying agents of the map with the highest score.
TopScorers ==
    LET capable == {i \in 1..Len(available_agents) :
                      Qualifies(available_agents[i].info, routed_task)}
        score(i) == calculate_agent_score(routed_task, available_agents[i].info)
    IN {i \in capable : \A j \in capable : score(i) >= score(j)}

\* Every call returned the same, and with several top scorers the first of
\* them in map order.
FirstTopScorerReturned ==
    /\ \A j, k \in 1..Len(returned) : returned[j] = returned[k]
    /\ Cardinality(TopScorers) > 1 =>
          \A k \in 1..Len(returned) :
              \E i \in TopScorers :
                  /\ returned[k] = available_agents[i].name
                  /\ \A j \in TopScorers : i <= j

\* C19 (as stated): calls with the same task, agent map and configuration
\* return the same agent although the statistics change between them, and
\* when several capable agents share the top score the first of them in the
\* order of the map is returned.
C19_DeterministicFirstOfTies == FirstTopScorerReturned

\* C19 (amended): the same, the tie rule for a task whose pinned agent does
\* not qualify or that has none; a qualifying pinned agent is returned
\* wherever it stands among the top scorers.
C19_DeterministicFirstOfTiesUnlessPinned ==
    /\ \A j, k \in 1..Len(returned) : returned[j] = returned[k]
    /\ ~PinQualifies => FirstTopScorerReturned

\* Two calls were made, the statistics changed between them, no pin
\* qualifies and two agents share the top score.
C19_Witness ==
    /\ Len(returned) = 2
    /\ router_stats.total_routed = 2
    /\ ~PinQualifies
    /\ Cardinality(TopScorers) = 2

\* Two agents of the map both qualify and are equal in everything the scores
\* read but the load ratio.
DifferOnlyInLoadRatio(i, j) ==
    LET x == available_agents[i].info
        y == available_agents[j].info
    IN /\ Qualifies(x, routed_task)
       /\ Qualifies(y, routed_task)
       /\ x.registration.capabilities = y.registration.capabilities
       /\ x.registration.supported_task_types
             = y.registration.supported_task_types
       /\ x.registration.priority = y.registration.priority
       /\ x.total_tasks_completed = y.total_tasks_completed
       /\ x.error_count = y.error_count
       /\ x.current_load * y.registration.max_concurrent_tasks
             # y.current_load * x.registration.max_concurrent_tasks

\* Agent i of the map has a lower load ratio than agent j.
LowerLoadRatio(i, j) ==
    available_agents[i].info.current_load
          * available_agents[j].info.registration.max_concurrent_tasks
       < available_agents[j].info.current_load
          * available_agents[i].info.registration.max_concurrent_tasks

\* C20: an unpinned task routed among capable agents that are equal in
\* capabilities, priority and history and differ only in load ratio goes to
\* the agent with the lower load ratio, whatever the order of the map.
C20_LowerLoadRatioSelected ==
    \A i, j \in 1..Len(available_agents) :
        (/\ routed_task.assigned_agent = None
         /\ DifferOnlyInLoadRatio(i, j)
         /\ LowerLoadRatio(i, j)) =>
            \A k \in 1..Len(returned) :
                returned[k] = available_agents[i].name

\* The same for agents with a limit of 3 tasks (the file agent's).
LowerLoadSelectedOfThree ==
    \A i, j \in 1..Len(available_agents) :
        (/\ routed_task.assigned_agent = None
         /\ DifferOnlyInLoadRatio(i, j)
         /\ LowerLoadRatio(i, j)
         /\ available_agents[i].info.registration.max_concurrent_tasks = 3
         /\ available_agents[j].info.registration.max_concurrent_tasks = 3) =>
            \A k \in 1..Len(returned) :
                returned[k] = available_agents[i].name

\* Two read_file agents at 0 of 3 and 2 of 3, the loaded one first in the
\* map, and a call has returned.
C20_Witness ==
    /\ routed_task.assigned_agent = None
    /\ routed_task.type = "read_file"
    /\ Len(available_agents) = 2
    /\ DifferOnlyInLoadRatio(1, 2)
    /\ available_agents[1].info.current_load = 2
    /\ available_agents[1].info.registration.max_concurrent_tasks = 3
    /\ available_agents[2].info.current_load = 0
    /\ available_agents[2].info.registration.max_concurrent_tasks = 3
    /\ returned # <<>>
    /\ returned[1] = available_agents[2].name

\* Agents i and j of the map were scored by a call and differ in load only as
\* a < b <= m under the same limit m >= 1.
ScoredWithLessLoad(i, j) ==
    LET x == available_agents[i].info
        y == available_agents[j].info
    IN /\ returned # <<>>
       /\ reaches_scoring(routed_task, available_agents)
       /\ Qualifies(x, routed_task)
       /\ Qualifies(y, routed_task)
       /\ x.registration.max_concurrent_tasks >= 1
       /\ x.registration.max_concurrent_tasks
             = y.registration.max_concurrent_tasks
       /\ x.current_load < y.current_load
       /\ y.current_load <= y.registration.max_concurrent_tasks

\* C21: for every limit m >= 1 and loads 0 <= a < b <= m the workload score
\* with a current tasks is strictly greater than with b current tasks, also
\* where the under-0.5 bonus and the cap at 1.0 apply.
C21_WorkloadScoreStrictlyDecreasing ==
    \A i, j \in 1..Len(available_agents) :
        ScoredWithLessLoad(i, j) =>
            calculate_workload_score(available_agents[i].info)
               > calculate_workload_score(available_agents[j].info)

\* The same for limits below 10, where no load above 0 reaches the cap.
WorkloadScoreStrictlyDecreasingBelowTen ==
    \A i, j \in 1..Len(available_agents) :
        (/\ ScoredWithLessLoad(i, j)
         /\ available_agents[i].info.registration.max_concurrent_tasks < 10) =>
            calculate_workload_score(available_agents[i].info)
               > calculate_workload_score(available_agents[j].info)

\* Two agents with the limit 3 at 0 and 1 tasks were scored: the bonus applies
\* to both and the cap to the first.
C21_Witness ==
    \E i, j \in 1..Len(available_agents) :
        /\ ScoredWithLessLoad(i, j)
        /\ available_agents[i].info.registration.max_concurrent_tasks = 3
        /\ available_agents[i].info.current_load = 0
        /\ available_agents[j].info.current_load = 1
        /\ calculate_workload_score(available_agents[i].info) = ScoreScale

\* The ids the index holds under a key.
Indexed(index, key) == IF key \in DOMAIN index THEN index[key] ELSE {}

\* C22: create_context on an active conversation id returns the context that
\* is there and changes neither it nor the active set, the indexes or the
\* storage, whatever user_id and initial_data are given; on an id that is not
\* active it returns a context with the given id, user and initial data,
\* which is then the active context of the id.
C22_CreateContextIdempotent ==
    [][\A c \in ConversationIds, u \in Users, d \in InitialDataChoices :
          create_context(c, u, d) =>
             LET context ==
                    create_context_returns(context_manager, c, u, d, now)
             IN IF c \in DOMAIN context_manager.active_contexts
                THEN /\ context = context_manager.active_contexts[c]
                     /\ context_manager' = context_manager
                ELSE /\ context.user_id = u
                     /\ context.session_data = d
                     /\ context.shared_memory = EmptyDict
                     /\ context.agent_states = EmptyDict
                     /\ context.active_tasks = <<>>
                     /\ DOMAIN context_manager'.active_contexts
                           = DOMAIN context_manager.active_contexts \cup {c}
                     /\ context_manager'.active_contexts[c] = context
                     /\ c \in Indexed(context_manager'.user_id_index, u)]_vars

\* After two calls the only context is c1 of user u1 with its initial data,
\* indexed once: create_context("c1", "u1", data) and a second call on "c1".
C22_Witness ==
    /\ context_calls = 2
    /\ last_call = Call("create_context", "c1", None)
    /\ context_manager.stats.contexts_created = 1
    /\ DOMAIN context_manager.active_contexts = {"c1"}
    /\ context_manager.active_contexts["c1"].user_id = "u1"
    /\ context_manager.active_contexts["c1"].session_data # EmptyDict
    /\ context_manager.active_contexts["c1"].shared_memory = EmptyDict
    /\ context_manager.active_contexts["c1"].active_tasks = <<>>
    /\ context_manager.user_id_index = ("u1" :> {"c1"})
    /\ context_manager.agent_states_index = EmptyDict

\* The context get_context(c) finds: the active one, or the one on storage.
FoundContext(c) ==
    IF c \in DOMAIN context_manager.active_contexts
    THEN context_manager.active_contexts[c]
    ELSE load_context(context_manager, c)

\* merged is the key-wise union of target and source in which the source's
\* value stands on every key of the source.
SourceWinsUnion(merged, target, source) ==
    /\ DOMAIN merged = DOMAIN target \cup DOMAIN source
    /\ \A k \in DOMAIN source : merged[k] = source[k]
    /\ \A k \in DOMAIN target \ DOMAIN source : merged[k] = target[k]

\* The maps and tasks of two contexts are equal.
SameContent(x, y) ==
    /\ x.session_data = y.session_data
    /\ x.shared_memory = y.shared_memory
    /\ x.agent_states = y.agent_states
    /\ x.active_tasks = y.active_tasks

\* C23: after a successful merge_contexts(target, source) the target's
\* session_data, shared_memory and each agent's state are the key-wise union
\* of target and source with the source's value on every conflicting key; the
\* target's active_tasks gain exactly the source's tasks that were not
\* present; the source's maps and tasks are unchanged and it stays active;
\* a second merge of the same source changes nothing further.
C23_MergeSourceWins ==
    [][\A target, source \in ConversationIds :
          (/\ merge_contexts(target, source)
           /\ merge_contexts_returns(context_manager, target, source)) =>
             LET old == FoundContext(target)
                 from == FoundContext(source)
                 new == context_manager'.active_contexts[target]
                 gained == SubSeq(new.active_tasks,
                                  Len(old.active_tasks) + 1,
                                  Len(new.active_tasks))
             IN /\ SourceWinsUnion(new.session_data,
                                    old.session_data, from.session_data)
                /\ SourceWinsUnion(new.shared_memory,
                                    old.shared_memory, from.shared_memory)
                /\ DOMAIN new.agent_states
                      = DOMAIN old.agent_states \cup DOMAIN from.agent_states
                /\ \A a \in DOMAIN new.agent_states :
                      SourceWinsUnion(
                         new.agent_states[a],
                         IF a \in DOMAIN old.agent_states
                         THEN old.agent_states[a] ELSE EmptyDict,
                         IF a \in DOMAIN from.agent_states
                         THEN from.agent_states[a] ELSE EmptyDict)
                /\ SubSeq(new.active_tasks, 1, Len(old.active_tasks))
                      = old.active_tasks
                /\ Range(gained)
                      = Range(from.active_tasks) \ Range(old.active_tasks)
                /\ source \in DOMAIN context_manager'.active_contexts
                /\ source # target =>
                      SameContent(context_manager'.active_contexts[source],
                                  from)
                /\ SameContent(
                      after_merge_contexts(context_manager', target, source,
                                           now').active_contexts[target],
                      new)]_vars

\* A merge was made whose target has a key the source overwrote, a key of
\* its own, an agent state and a task only the source had.
C23_Witness ==
    /\ last_call = Call("merge_contexts", "c1", "c2")
    /\ context_manager.stats.context_merges = 1
    /\ DOMAIN context_manager.active_contexts = {"c1", "c2"}
    /\ context_manager.active_contexts["c1"].session_data
          = ("k1" :> "v2") @@ ("k2" :> TupleValue)
    /\ context_manager.active_contexts["c2"].session_data = ("k1" :> "v2")
    /\ "agent_b" \in DOMAIN context_manager.active_contexts["c1"].agent_states
    /\ context_manager.active_contexts["c1"].updated_at
          >= context_manager.active_contexts["c2"].updated_at

\* The context that _load_context gives after _persist_context of the
\* active context c.
Reloaded(c) == load_context(persist_context(context_manager, c), c)

\* The reloaded context equals the context in user, maps and timestamps,
\* and its task list is empty.
RoundTrips(c) ==
    LET context == context_manager.active_contexts[c]
    IN /\ Reloaded(c).user_id = context.user_id
       /\ Reloaded(c).session_data = context.session_data
       /\ Reloaded(c).shared_memory = context.shared_memory
       /\ Reloaded(c).agent_states = context.agent_states
       /\ Reloaded(c).created_at = context.created_at
       /\ Reloaded(c).updated_at = context.updated_at
       /\ Reloaded(c).active_tasks = <<>>

\* C24: for every context, persisting it and then loading it by its
\* conversation id yields a context with equal user_id, session_data,
\* shared_memory, agent_states and timestamps, and an empty active_tasks.
C24_PersistLoadRoundTrip ==
    \A c \in DOMAIN context_manager.active_contexts : RoundTrips(c)

\* Every value of the context's maps is one that JSON gives back as it was.
JsonStable(context) ==
    /\ json_dict(context.session_data) = context.session_data
    /\ json_dict(context.shared_memory) = context.shared_memory
    /\ json_agent_states(context.agent_states) = context.agent_states

\* The round trip of every context whose values JSON gives back unchanged.
JsonStableRoundTrip ==
    \A c \in DOMAIN context_manager.active_contexts :
       JsonStable(context_manager.active_contexts[c]) => RoundTrips(c)

\* A context with a tuple in its session data was persisted, the manager
\* restarted, and the context loaded again holds a list instead.
C24_Witness ==
    /\ last_call = Call("get_context", "c1", None)
    /\ context_manager.stats.contexts_loaded = 1
    /\ "c1" \in DOMAIN context_manager.active_contexts
    /\ context_manager.active_contexts["c1"].session_data
          = ("k1" :> "v1") @@ ("k2" :> ListValue)

\* Whether the conversation id c is anywhere in the index.
InIndex(index, c) == \E k \in DOMAIN index : c \in index[k]

\* The keys of the index under which the conversation id c stands.
KeysOf(index, c) == {k \in DOMAIN index : c \in index[k]}

\* C25: when a cleanup sweep runs, every active context whose updated_at is
\* older than the TTL leaves the active set and both indexes and its
\* persisted record is moved to the archive; every context touched within
\* the TTL stays active with its data, its index entries and its persisted
\* record unchanged.
C25_SweepArchivesExpiredOnly ==
    [][(cleanup_expired_contexts /\ should_cleanup(context_manager, now)) =>
          \A c \in DOMAIN context_manager.active_contexts :
             IF now - context_manager.active_contexts[c].updated_at
                   > context_ttl_hours * 3600
             THEN /\ c \notin DOMAIN context_manager'.active_contexts
                  /\ ~InIndex(context_manager'.user_id_index, c)
                  /\ ~InIndex(context_manager'.agent_states_index, c)
                  /\ c \notin DOMAIN context_manager'.files
                  /\ \E a \in context_manager'.archived \ context_manager.archived :
                        /\ a.conversation_id = c
                        /\ a.record = context_manager.files[c]
             ELSE /\ c \in DOMAIN context_manager'.active_contexts
                  /\ context_manager'.active_contexts[c]
                        = context_manager.active_contexts[c]
                  /\ KeysOf(context_manager'.user_id_index, c)
                        = KeysOf(context_manager.user_id_index, c)
                  /\ KeysOf(context_manager'.agent_states_index, c)
                        = KeysOf(context_manager.agent_states_index, c)
                  /\ c \in DOMAIN context_manager'.files
                  /\ context_manager'.files[c] = context_manager.files[c]]_vars

\* A sweep has archived c1, 61 minutes old, and left c2, 10 minutes old.
C25_Witness ==
    /\ last_call.method = "cleanup_expired_contexts"
    /\ context_manager.stats.contexts_expired = 1
    /\ context_manager.last_cleanup = now
    /\ now = 3660
    /\ DOMAIN context_manager.active_contexts = {"c2"}
    /\ context_manager.active_contexts["c2"].updated_at = now - 600
    /\ DOMAIN context_manager.files = {"c2"}
    /\ \E a \in context_manager.archived :
          a.conversation_id = "c1" /\ a.record.updated_at = 0
    /\ ~InIndex(context_manager.user_id_index, "c1")

\* C26: cleanup_expired_contexts sweeps at most once per
\* auto_cleanup_interval: a call made less than the interval after the last
\* sweep returns 0 and leaves the active set, the indexes, the persisted
\* records and the last-run timestamp unchanged, even if expired contexts
\* exist; a call made at or after the interval sweeps and resets the
\* timestamp.
C26_SweepThrottled ==
    [][cleanup_expired_contexts =>
          IF now - context_manager.last_cleanup < auto_cleanup_interval
          THEN /\ cleanup_expired_contexts_returns(context_manager, now) = 0
               /\ context_manager' = context_manager
          ELSE /\ context_manager'.last_cleanup = now
               /\ DOMAIN context_manager'.active_contexts
                     = {c \in DOMAIN context_manager.active_contexts :
                           now - context_manager.active_contexts[c].updated_at
                              <= context_ttl_hours * 3600}
               /\ cleanup_expired_contexts_returns(context_manager, now)
                     = Cardinality(DOMAIN context_manager.active_contexts
                                   \ DOMAIN context_manager'.active_contexts)]_vars

\* An expired context is active after a call made less than the interval
\* after the last-run timestamp, which the construction of the manager set.
C26_Witness ==
    /\ last_call.method = "cleanup_expired_contexts"
    /\ context_manager.stats.contexts_loaded = 1
    /\ context_manager.stats.contexts_expired = 0
    /\ context_manager.last_cleanup > 0
    /\ now - context_manager.last_cleanup < auto_cleanup_interval
    /\ DOMAIN context_manager.active_contexts = {"c1"}
    /\ now - context_manager.active_contexts["c1"].updated_at
          > context_ttl_hours * 3600

\* A sweep ran exactly auto_cleanup_interval after the construction.
SweptAtTheInterval ==
    /\ last_call.method = "cleanup_expired_contexts"
    /\ context_manager.last_cleanup = auto_cleanup_interval
    /\ now = auto_cleanup_interval

\* The methods that address one conversation id and do not create it.
SingleIdMethods ==
    {"get_context", "update_context", "set_shared_memory",
     "get_shared_memory", "update_agent_state", "get_agent_state",
     "add_task_to_context", "remove_task_from_context"}

\* The step is a call of one of these methods on the conversation id c.
SingleIdCall(c) ==
    /\ context_calls' = context_calls + 1
    /\ now' = now
    /\ last_call'.method \in SingleIdMethods
    /\ last_call'.conversation_id = c

\* The conversation id is neither active nor persisted.
MissingId(c) == ~context_found(context_manager, c)

\* The call on c returns None or False.
ReturnsNotFound(c) ==
    /\ ~found_returns(context_manager, c)
    /\ \A key \in Keys :
          get_shared_memory_returns(context_manager, c, key, now) = None
    /\ \A a \in Agents :
          get_agent_state_returns(context_manager, c, a, now) = NoAgentState

\* The step leaves the active set, the indexes, every context and the
\* persisted records as they are.
ManagerUnchanged ==
    /\ context_manager'.active_contexts = context_manager.active_contexts
    /\ context_manager'.user_id_index = context_manager.user_id_index
    /\ context_manager'.agent_states_index
          = context_manager.agent_states_index
    /\ context_manager'.files = context_manager.files
    /\ context_manager'.archived = context_manager.archived

\* The step changes what get_context(c) changes and nothing else: an active
\* c is touched, a c on storage only is loaded and indexed; the maps and
\* tasks of every context and the persisted records stay.
OnlyGetContext(c) ==
    /\ context_manager'.files = context_manager.files
    /\ context_manager'.archived = context_manager.archived
    /\ DOMAIN context_manager'.active_contexts
          = DOMAIN context_manager.active_contexts
               \cup ({c} \cap DOMAIN context_manager.files)
    /\ \A x \in DOMAIN context_manager.active_contexts :
          /\ SameContent(context_manager'.active_contexts[x],
                         context_manager.active_contexts[x])
          /\ context_manager'.active_contexts[x].user_id
                = context_manager.active_contexts[x].user_id
          /\ x # c => context_manager'.active_contexts[x]
                         = context_manager.active_contexts[x]
    /\ c \notin DOMAIN context_manager.active_contexts
          /\ c \in DOMAIN context_manager.files
          => context_manager'.active_contexts[c]
               = load_context(context_manager, c)
    /\ \A x \in ConversationIds \ {c} :
          /\ KeysOf(context_manager'.user_id_index, x)
                = KeysOf(context_manager.user_id_index, x)
          /\ KeysOf(context_manager'.agent_states_index, x)
                = KeysOf(context_manager.agent_states_index, x)

\* C27: every operation addressed to a conversation id that is neither
\* active nor persisted (get_context, update_context, set/get_shared_memory,
\* update/get_agent_state, add/remove task, merge_contexts with a missing
\* target or source) returns None or False and leaves the active set, the
\* indexes, every existing context and the persisted records unchanged.
C27_MissingIdChangesNothing ==
    [][\A c \in ConversationIds :
          MissingId(c) =>
             /\ SingleIdCall(c) => ReturnsNotFound(c) /\ ManagerUnchanged
             /\ \A other \in ConversationIds :
                   merge_contexts(c, other) \/ merge_contexts(other, c) =>
                      /\ ~merge_contexts_returns(context_manager, c, other)
                      /\ ~merge_contexts_returns(context_manager, other, c)
                      /\ ManagerUnchanged]_vars

\* C27, amended: a call addressed to one missing id returns None or False
\* and leaves the manager unchanged; merge_contexts with a missing target
\* or source returns False and changes no map, no task list and no
\* persisted record, but it has run get_context on the other id: an active
\* context has its updated_at refreshed, and a context that is only on
\* storage is loaded into the active set and the indexes.
C27_MissingIdReturnsNotFound ==
    [][\A c \in ConversationIds :
          MissingId(c) =>
             /\ SingleIdCall(c) => ReturnsNotFound(c) /\ ManagerUnchanged
             /\ \A other \in ConversationIds :
                   merge_contexts(c, other) \/ merge_contexts(other, c) =>
                      /\ ~merge_contexts_returns(context_manager, c, other)
                      /\ ~merge_contexts_returns(context_manager, other, c)
                      /\ OnlyGetContext(other)]_vars

\* merge_contexts(c1, c2) was called with c2 missing: it merged nothing and
\* refreshed the updated_at of c1, which the persisted record does not have.
C27_Witness ==
    /\ last_call = Call("merge_contexts", "c1", "c2")
    /\ ~context_found(context_manager, "c2")
    /\ context_manager.stats.context_merges = 0
    /\ "c1" \in DOMAIN context_manager.active_contexts
    /\ "c1" \in DOMAIN context_manager.files
    /\ context_manager.active_contexts["c1"].updated_at = now
    /\ context_manager.files["c1"].updated_at < now

\* A call on one missing id was made and the manager is as it was built.
MissingIdCalled ==
    /\ last_call = Call("set_shared_memory", "c2", None)
    /\ context_calls = 1
    /\ context_manager = NewContextManager

\* The user index holds c under u exactly when an active context c has the
\* user u.
UserIndexAgrees ==
    \A c \in ConversationIds, u \in Users \cup {None} :
       c \in Indexed(context_manager.user_id_index, u)
          <=> /\ c \in DOMAIN context_manager.active_contexts
              /\ context_manager.active_contexts[c].user_id = u

\* Every entry of the agent index is an agent state of an active context.
AgentIndexSound ==
    \A c \in ConversationIds, a \in Agents :
       c \in Indexed(context_manager.agent_states_index, a)
          => /\ c \in DOMAIN context_manager.active_contexts
             /\ a \in DOMAIN context_manager.active_contexts[c].agent_states

\* C28: after any sequence of operations the secondary indexes agree with
\* the active set: a conversation id is in the user index under u exactly
\* when an active context with that id has user_id u, and in the agent index
\* under a exactly when an active context with that id has a in its
\* agent_states.
C28_IndexesAgreeWithActiveSet ==
    /\ UserIndexAgrees
    /\ \A c \in ConversationIds, a \in Agents :
          c \in Indexed(context_manager.agent_states_index, a)
             <=> /\ c \in DOMAIN context_manager.active_contexts
                 /\ a \in DOMAIN
                          context_manager.active_contexts[c].agent_states

\* update_agent_state has given the active context c1 a state of agent_a
\* and the agent index has no entry for it.
C28_Witness ==
    /\ last_call = Call("update_agent_state", "c1", None)
    /\ "c1" \in DOMAIN context_manager.active_contexts
    /\ "agent_a" \in DOMAIN context_manager.active_contexts["c1"].agent_states
    /\ "c1" \notin Indexed(context_manager.agent_states_index, "agent_a")
    /\ "c1" \in Indexed(context_manager.user_id_index, "u1")

\* The agent index has an entry: a context with an agent state was loaded.
AgentIndexed ==
    /\ "c1" \in Indexed(context_manager.agent_states_index, "agent_a")
    /\ context_manager.stats.contexts_loaded = 1

\* After the step the context c is refreshed and its persisted record, as it
\* is read back, equals it in the three maps and in updated_at.
TouchedAndPersisted(c) ==
    LET context == context_manager'.active_contexts[c]
        record == context_manager'.files[c]
    IN /\ context.updated_at = now
       /\ record.updated_at = context.updated_at
       /\ record.session_data = context.session_data
       /\ record.shared_memory = context.shared_memory
       /\ record.agent_states = context.agent_states

\* The step is update_context, set_shared_memory or update_agent_state on c.
WriteCall(c) ==
    \/ \E updates \in UpdateChoices : update_context(c, updates)
    \/ \E w \in SharedMemoryWrites : set_shared_memory(c, w[1], w[2])
    \/ \E d \in AgentStateChoices : update_agent_state(c, "agent_a", d)

\* The step is get_shared_memory or get_agent_state on c.
ReadCall(c) ==
    \/ get_shared_memory(c, "k1")
    \/ get_agent_state(c, "agent_a")

\* The value written by the step is what the matching get returns, in the
\* same manager and in a new manager on the same storage.
WrittenValueRead(c) ==
    /\ \A w \in SharedMemoryWrites :
          set_shared_memory(c, w[1], w[2]) =>
             /\ get_shared_memory_returns(context_manager', c, w[1], now)
                   = w[2]
             /\ get_shared_memory_returns(restarted(context_manager', now),
                                          c, w[1], now) = w[2]
    /\ \A d \in AgentStateChoices :
          update_agent_state(c, "agent_a", d) =>
             LET read == get_agent_state_returns(context_manager', c,
                                                 "agent_a", now)
                 reread == get_agent_state_returns(
                              restarted(context_manager', now), c,
                              "agent_a", now)
             IN /\ \A k \in DOMAIN d : k \in DOMAIN read /\ read[k] = d[k]
                /\ reread = read

\* C29: with persistence enabled, after each of update_context,
\* set_shared_memory, get_shared_memory, update_agent_state and
\* get_agent_state on an existing context, its updated_at has been refreshed
\* and the persisted record equals the in-memory context in session_data,
\* shared_memory, agent_states and updated_at; a value written by
\* set_shared_memory or update_agent_state is returned by the matching get,
\* also after the context is reloaded from storage.
C29_PersistedEqualsInMemory ==
    [][\A c \in ConversationIds :
          context_found(context_manager, c) =>
             /\ WriteCall(c) \/ ReadCall(c) => TouchedAndPersisted(c)
             /\ WrittenValueRead(c)]_vars

\* The three writing methods refresh updated_at and leave a persisted
\* record with the updated_at of the context, and what they wrote is
\* returned by the matching get of the same manager.
WritesTouchAndPersist ==
    [][\A c \in ConversationIds :
          context_found(context_manager, c) /\ WriteCall(c) =>
             /\ context_manager'.active_contexts[c].updated_at = now
             /\ context_manager'.files[c].updated_at = now
             /\ context_manager'.files[c]
                   = persisted_record(context_manager'.active_contexts[c])
             /\ \A w \in SharedMemoryWrites :
                   set_shared_memory(c, w[1], w[2]) =>
                      get_shared_memory_returns(context_manager', c, w[1], now)
                         = w[2]]_vars

\* get_shared_memory has refreshed the updated_at of c1 and the persisted
\* record still has the old one.
C29_Witness ==
    /\ last_call = Call("get_shared_memory", "c1", None)
    /\ context_manager.stats.memory_operations = 1
    /\ "c1" \in DOMAIN context_manager.active_contexts
    /\ "c1" \in DOMAIN context_manager.files
    /\ context_manager.active_contexts["c1"].updated_at = now
    /\ context_manager.files["c1"].updated_at < now

\* The rule of the loop: a HEALTHY agent whose last_heartbeat is older than
\* twice heartbeat_interval when an iteration examines it becomes UNHEALTHY,
\* and no iteration makes an UNHEALTHY agent HEALTHY.
HeartbeatRule ==
    [][heartbeat_loop =>
          \A a \in Agents :
             IsRegistered(a) =>
                /\ agent_info[a].status = HEALTHY
                      /\ now - agent_info[a].last_heartbeat
                            > 2 * heartbeat_interval
                      => agent_info'[a].status = UNHEALTHY
                /\ agent_info[a].status = UNHEALTHY
                      => agent_info'[a].status = UNHEALTHY]_vars

\* An agent that is not HEALTHY is not chosen for a task by the unpinned
\* selection.
UnhealthySkipped ==
    \A t \in active_tasks :
       ~pinned_agent_available(t) /\ find_suitable_agent(t) # None
          => agent_info[find_suitable_agent(t)].status = HEALTHY

\* C30: when the heartbeat loop examines a HEALTHY agent whose last-seen
\* timestamp is older than twice heartbeat_interval it sets the agent
\* UNHEALTHY, so an agent that is no longer seen is marked UNHEALTHY: here
\* every agent was last seen at time 0, and an iteration later than twice
\* the interval leaves no registered agent HEALTHY.
C30_SilentAgentMarkedUnhealthy ==
    [][heartbeat_loop /\ now > 2 * heartbeat_interval =>
          \A a \in Agents :
             IsRegistered(a) => agent_info'[a].status # HEALTHY]_vars

\* agent_a, registered at time 0 and silent since, is HEALTHY after the
\* iteration at three times the interval.
C30_Witness ==
    /\ is_running
    /\ now = 3 * heartbeat_interval
    /\ IsRegistered("agent_a")
    /\ agent_info["agent_a"].status = HEALTHY
    /\ agent_info["agent_a"].last_heartbeat = now

\* A late iteration has marked agent_a UNHEALTHY.
MarkedUnhealthy ==
    /\ agent_info["agent_a"].status = UNHEALTHY
    /\ agent_info["agent_a"].last_heartbeat = 2 * heartbeat_interval + 1

\* The task is in a terminal state.
Terminal(t) == tasks[t].status \in {COMPLETED, FAILED, CANCELLED}

\* What _cleanup_old_tasks does when it removes something: exactly the
\* terminal tasks whose execution_end is older than the retention window
\* leave the task table, each with its stored result and its context; no
\* PENDING or RUNNING task is removed.
CleanupRemovesOldTerminalTasks ==
    [][cleanup_old_tasks =>
          \A t \in active_tasks :
             IF /\ Terminal(t)
                /\ tasks[t].execution_end # NoTime
                /\ now - tasks[t].execution_end > task_retention
             THEN /\ t \notin active_tasks'
                  /\ task_results'[t] = NoResult
                  /\ t \notin active_contexts'
             ELSE /\ t \in active_tasks'
                  /\ task_results'[t] = task_results[t]
                  /\ t \in active_contexts <=> t \in active_contexts']_vars

\* A FAILED task without execution_end stays in the task table for good.
FailedWithoutEndStays ==
    [][\A t \in active_tasks :
          tasks[t].status = FAILED /\ tasks[t].execution_end = NoTime =>
             /\ t \in active_tasks'
             /\ tasks'[t] = tasks[t]]_vars

\* C31: every task that has been in a terminal state for longer than the
\* retention window, whatever the cause of the failure, is removed by the
\* health-check cleanup; the cleanup counts the window from the task's
\* execution_end, so every terminal task of the task table has one.
C31_TerminalTaskCollected ==
    \A t \in active_tasks : Terminal(t) => tasks[t].execution_end # NoTime

\* After the retention window a cleanup has removed a completed task, and a
\* task that failed for want of an agent is still in the task table.
C31_Witness ==
    /\ now > task_retention
    /\ \E t \in active_tasks :
          /\ tasks[t].status = FAILED
          /\ tasks[t].error = NoAgentError
          /\ tasks[t].execution_end = NoTime
    /\ \E t \in DOMAIN tasks :
          /\ t \notin active_tasks
          /\ tasks[t].status = COMPLETED
          /\ task_results[t] = NoResult

\* The positions of the queue whose task has its dependencies satisfied.
ReadyPositions ==
    {i \in 1..Len(task_queue) : are_dependencies_satisfied(task_queue[i])}

\* The free global slots as the loop counts them.
FreeSlots ==
    max_concurrent_tasks
       - Cardinality({t \in active_tasks : tasks[t].status = RUNNING})

\* C32: within one processing tick the dispatched tasks are exactly the
\* first k ready tasks in queue insertion order, k being the smaller of the
\* number of ready tasks and the number of free global slots; the queue is in
\* submission order, and a later-submitted ready task is never dispatched in
\* a tick in which an earlier-submitted ready task is not.
C32_TickTakesFirstReady ==
    [][task_processor_loop =>
          LET k == IF Cardinality(ReadyPositions) < FreeSlots
                   THEN Cardinality(ReadyPositions) ELSE FreeSlots
          IN /\ Len(tasks_to_execute') = k
             /\ \A n \in 1..k :
                   \E i \in ReadyPositions :
                      /\ Cardinality({j \in ReadyPositions : j <= i}) = n
                      /\ tasks_to_execute'[n] = task_queue[i]
             /\ \A i, j \in 1..Len(task_queue) :
                   i < j => task_queue[i] < task_queue[j]
             /\ \A i, j \in ReadyPositions :
                   i < j /\ task_queue[j] \in Range(tasks_to_execute')
                      => task_queue[i] \in Range(tasks_to_execute')]_vars

\* A tick has taken the first two of three ready tasks.
C32_Witness ==
    /\ processor_pc = "gather"
    /\ tasks_to_execute = <<1, 2>>
    /\ exec_pc[1] = "created"
    /\ exec_pc[2] = "created"
    /\ Len(tasks) = 3
    /\ tasks[3].status = PENDING
    /\ tasks[3].dependencies = {}
    /\ 3 \notin Range(task_queue)

\* The tasks that are RUNNING.
RunningTasks == {t \in DOMAIN tasks : tasks[t].status = RUNNING}

\* C33: the processing loop does not rescan the queue until every task
\* dispatched in the current tick has reached a terminal state: the tick
\* ends only when each of its tasks is terminal, a scan happens only when no
\* task is RUNNING, the tasks of a tick are fixed by its scan, and a task is
\* set RUNNING only as a task of the tick under way; so tasks of two
\* different ticks are never RUNNING at the same time.
C33_TicksDoNotOverlap ==
    [][/\ gather_returns =>
             \A t \in Range(tasks_to_execute) : Terminal(t)
       /\ task_processor_loop => RunningTasks = {}
       /\ tasks_to_execute' # tasks_to_execute =>
             task_processor_loop \/ gather_returns
       /\ \A t \in TaskIds :
             BecomesRunning(t) =>
                /\ processor_pc = "gather"
                /\ t \in Range(tasks_to_execute)
       /\ RunningTasks \subseteq Range(tasks_to_execute)]_vars

\* While a task of the tick is RUNNING and another task of the tick has
\* ended, a task submitted after the scan waits ready in the queue.
C33_Witness ==
    /\ processor_pc = "gather"
    /\ \E t \in Range(tasks_to_execute) : tasks[t].status = RUNNING
    /\ \E t \in Range(tasks_to_execute) : tasks[t].status = COMPLETED
    /\ \E t \in Range(task_queue) :
          /\ tasks[t].status = PENDING
          /\ are_dependencies_satisfied(t)

\* C34: when several ready tasks of one tick target the same agent, they
\* run concurrently only while they fit its capacity: for every registered
\* agent the length of its current_tasks, in the registry and in the agent
\* itself, never exceeds its registration's max_concurrent_tasks.
C34_AgentWithinCapacity ==
    \A a \in Agents :
       IsRegistered(a) =>
          /\ Len(agent_info[a].current_tasks)
                <= registration(a).max_concurrent_tasks
          /\ Len(agent_current_tasks[a])
                <= registration(a).max_concurrent_tasks

\* Two tasks of one tick run on agent_b, whose capacity is 2.
C34_Witness ==
    /\ IsRegistered("agent_b")
    /\ Len(agent_info["agent_b"].current_tasks) = 2
    /\ Len(agent_current_tasks["agent_b"]) = 2
    /\ Range(agent_info["agent_b"].current_tasks)
          \subseteq Range(tasks_to_execute)

\* A task of the tick named agent_a, which was at its capacity of one task,
\* and was not given to it.
PinnedBeyondCapacity ==
    /\ IsRegistered("agent_a")
    /\ Len(agent_info["agent_a"].current_tasks) = 1
    /\ \E t \in Range(tasks_to_execute) :
          /\ exec_pc[t] # "created"
          /\ t \notin Range(agent_info["agent_a"].current_tasks)
          /\ t > agent_info["agent_a"].current_tasks[1]

\* What the scan of the queue does: every ready task leaves the queue, taken
\* for the tick or not.
ScanRemovesEveryReadyTask ==
    [][task_processor_loop =>
          \A t \in Range(ready_tasks) : t \notin Range(task_queue')]_vars

\* C35: a ready task that the free global slots left undispatched stays in
\* the queue for a later tick, so every task known to the orchestrator with
\* status PENDING is in the queue or among the tasks of the tick under way.
C35_PendingTaskQueuedOrInTick ==
    \A t \in DOMAIN tasks :
        (t \in active_tasks /\ tasks[t].status = PENDING) =>
            \/ t \in Range(task_queue)
            \/ t \in Range(tasks_to_execute)

\* The tick that took the two free slots is over and the loop sleeps with
\* both slots free again; the third task, ready in that tick, is PENDING and
\* in the task table, but no longer in the queue.
C35_Witness ==
    /\ processor_pc = "sleep"
    /\ tasks_to_execute = <<>>
    /\ Len(tasks) = 3
    /\ tasks[1].status \in {COMPLETED, FAILED}
    /\ tasks[2].status \in {COMPLETED, FAILED}
    /\ 3 \in active_tasks
    /\ tasks[3].status = PENDING
    /\ tasks[3].dependencies = {}
    /\ 3 \notin Range(task_queue)
    /\ RunningTasks = {}

\* Every dependency of task t has reached COMPLETED.
DependenciesCompleted(t) ==
    \A d \in tasks[t].dependencies : Known(d) /\ tasks[d].status = COMPLETED

\* A task removed from the task table never comes back, so a task that
\* depends on it is never found ready again.
RemovedTaskNeverReturns ==
    [][\A t \in DOMAIN tasks :
          t \notin active_tasks => t \notin active_tasks']_vars

\* C36: the cleanup never makes a waiting task ineligible: a PENDING task in
\* the queue whose dependencies have all reached COMPLETED is found ready by
\* the next scan, also when the cleanup has removed some of them.
C36_CompletedDependenciesStayEligible ==
    \A t \in Range(task_queue) :
        (tasks[t].status = PENDING /\ DependenciesCompleted(t)) =>
            are_dependencies_satisfied(t)

\* Task 3 waits in the queue for tasks 1 and 2. Task 1 completed, the
\* retention window passed and the cleanup removed it before task 2
\* completed; now both are COMPLETED, the loop sleeps, and the scan does not
\* find task 3 ready.
C36_Witness ==
    /\ processor_pc = "sleep"
    /\ Len(tasks) = 3
    /\ tasks[3].dependencies = {1, 2}
    /\ tasks[3].status = PENDING
    /\ 3 \in Range(task_queue)
    /\ tasks[1].status = COMPLETED /\ 1 \notin active_tasks
    /\ tasks[2].status = COMPLETED /\ 2 \in active_tasks
    /\ tasks[2].execution_end - tasks[1].execution_end > task_retention
    /\ ~are_dependencies_satisfied(3)

\* The unpinned branch of _find_suitable_agent holds the rule: a task that
\* names no agent is dispatched to a HEALTHY agent only.
UnpinnedDispatchedToHealthy ==
    [][\A t \in TaskIds : \A a \in Agents :
          (DispatchedTo(t, a) /\ tasks[t].assigned_agent = None) =>
             agent_info[a].status = HEALTHY]_vars

\* C37: a task is set RUNNING only on an agent whose status at that moment
\* is HEALTHY, whether the agent was chosen by workload or named by the
\* task's assigned_agent.
C37_DispatchedToHealthyOnly ==
    [][\A t \in TaskIds : \A a \in Agents :
          DispatchedTo(t, a) =>
             /\ IsRegistered(a)
             /\ agent_info[a].status = HEALTHY]_vars

\* A task that names agent_a is RUNNING on agent_a and listed in its
\* current_tasks while register_agent still awaits agent_a's setup() and the
\* agent's status is OFFLINE.
C37_Witness ==
    \E t \in DOMAIN tasks :
        /\ tasks[t].status = RUNNING
        /\ tasks[t].assigned_agent = "agent_a"
        /\ IsRegistered("agent_a")
        /\ setup_pc["agent_a"] = "awaiting"
        /\ agent_info["agent_a"].status = OFFLINE
        /\ t \in Range(agent_info["agent_a"].current_tasks)
        /\ exec_pc[t] = "awaiting"

\* The registered agents that list task t in current_tasks.
ListedBy(t) ==
    {a \in Agents : IsRegistered(a) /\ t \in Range(agent_info[a].current_tasks)}

\* Each id in a registered agent's current_tasks names a RUNNING task
\* assigned to that agent.
ListedTasksRun ==
    \A a \in Agents : \A t \in TaskIds :
        a \in ListedBy(t) =>
            /\ Known(t)
            /\ tasks[t].status = RUNNING
            /\ tasks[t].assigned_agent = a

\* Every RUNNING task is in the current_tasks of exactly one agent.
RunningTaskListedOnce ==
    \A t \in DOMAIN tasks :
        tasks[t].status = RUNNING => Cardinality(ListedBy(t)) = 1

\* A task in a terminal state is in no agent's current_tasks.
TerminalTaskUnlisted ==
    \A t \in DOMAIN tasks : Terminal(t) => ListedBy(t) = {}

\* C38: in every state between scheduling steps, each id in a registered
\* agent's current_tasks names a RUNNING task assigned to that agent, every
\* RUNNING task is in the current_tasks of exactly one agent, and a terminal
\* task is in no agent's current_tasks.
C38_AgentBookkeeping ==
    /\ ListedTasksRun
    /\ RunningTaskListedOnce
    /\ TerminalTaskUnlisted

\* The registration that took task t is removed or replaced in this step.
RegistrationEnds(a) ==
    \/ ~IsRegistered(a)'
    \/ registrations'[a] # registrations[a]

\* C38 (amended): each id in a registered agent's current_tasks names a
\* RUNNING task assigned to that agent, and a terminal task is in no agent's
\* current_tasks; a task set RUNNING is put in the current_tasks of its agent
\* and of no other, and while it is RUNNING it leaves them only when
\* unregister_agent removes the agent's AgentInfo or register_agent replaces
\* it, after which the RUNNING task is in no agent's current_tasks.
C38_AgentBookkeepingWhileRegistered ==
    /\ [](ListedTasksRun /\ TerminalTaskUnlisted)
    /\ [][\A t \in DOMAIN tasks' :
             tasks'[t].status = RUNNING =>
                \/ captured_info_live(t)'
                \/ /\ Known(t)
                   /\ tasks[t].status = RUNNING
                   /\ \/ ~captured_info_live(t)
                      \/ RegistrationEnds(tasks[t].assigned_agent)]_vars

\* Two tasks of one tick were dispatched to agent_b: one has failed by an
\* exception and is in no agent's current_tasks, the other is RUNNING and in
\* those of agent_b alone.
C38_Witness ==
    \E t \in Range(tasks_to_execute) : \E u \in Range(tasks_to_execute) :
        /\ tasks[t].status = FAILED
        /\ tasks[t].error = ExceptionText
        /\ tasks[t].assigned_agent = "agent_b"
        /\ ListedBy(t) = {}
        /\ tasks[u].status = RUNNING
        /\ ListedBy(u) = {"agent_b"}
        /\ agent_info["agent_b"].error_count = 1

\* A task is RUNNING on an agent that unregister_agent has removed: it is in
\* no agent's current_tasks.
RunningTaskUnlisted ==
    \E t \in DOMAIN tasks :
        /\ tasks[t].status = RUNNING
        /\ exec_pc[t] = "awaiting"
        /\ ~IsRegistered(tasks[t].assigned_agent)
        /\ ListedBy(t) = {}

\* The calls so far that returned an agent.
Matched == {k \in 1..Len(returned) : returned[k] # None}

\* C39: when the pinned agent of the task does not qualify (not in the map,
\* not HEALTHY, type unsupported, at capacity or at the workload ceiling),
\* every find_best_agent call returns a top-scoring agent among the
\* qualifying ones, and none only when no agent qualifies; each call adds one
\* to total_routed and one to exactly one of successful_matches and
\* failed_matches.
C39_UnqualifiedPinFallsThrough ==
    /\ router_stats.total_routed = Len(returned)
    /\ router_stats.successful_matches = Cardinality(Matched)
    /\ router_stats.failed_matches = Len(returned) - Cardinality(Matched)
    /\ (routed_task.assigned_agent # None /\ ~PinQualifies) =>
          \A k \in 1..Len(returned) :
              IF TopScorers = {} THEN returned[k] = None
              ELSE \E i \in TopScorers :
                      returned[k] = available_agents[i].name

\* The task names agent_a, which is in the map but not HEALTHY; agent_b
\* qualifies, and both calls returned agent_b and were counted as matches.
C39_Witness ==
    /\ routed_task.assigned_agent = "agent_a"
    /\ \E i \in Named("agent_a") : available_agents[i].info.status # HEALTHY
    /\ ~PinQualifies
    /\ returned = <<"agent_b", "agent_b">>
    /\ router_stats.total_routed = 2
    /\ router_stats.successful_matches = 2
    /\ router_stats.failed_matches = 0

\* The pinned agent is not in the map, which holds one agent that does not
\* qualify: the call returned none and was counted as a failed match.
UnknownPinNoCapableAgent ==
    /\ routed_task.assigned_agent # None
    /\ Named(routed_task.assigned_agent) = {}
    /\ Len(available_agents) = 1
    /\ returned = <<None>>
    /\ router_stats.failed_matches = 1
    /\ router_stats.successful_matches = 0

\* How many of the contexts find_contexts_by_user(u) returns belong to
\* conversation c.
TimesFound(u, c) ==
    LET found == find_contexts_by_user(context_manager, u)
    IN Cardinality({i \in 1..Len(found) : found[i].conversation_id = c})

\* Conversation c is a conversation of user u, in memory or on storage.
ConversationOf(u, c) ==
    \/ /\ c \in DOMAIN context_manager.active_contexts
       /\ context_manager.active_contexts[c].user_id = u
    \/ /\ c \in DOMAIN context_manager.files
       /\ context_manager.files[c].user_id = u

\* What the code does: a conversation of the user is returned once for its
\* active context and once more for its file; a conversation that is only
\* archived, or of another user, is not returned.
FoundOncePerCopy ==
    \A u \in Users : \A c \in ConversationIds :
        TimesFound(u, c) =
            (IF /\ c \in DOMAIN context_manager.active_contexts
                /\ context_manager.active_contexts[c].user_id = u
             THEN 1 ELSE 0)
            + (IF /\ c \in DOMAIN context_manager.files
                  /\ context_manager.files[c].user_id = u
               THEN 1 ELSE 0)

\* C40: find_contexts_by_user(u) returns each conversation of user u exactly
\* once, whether its context is active, persisted or both, and returns no
\* context of a conversation that is only archived.
C40_EachConversationFoundOnce ==
    \A u \in Users : \A c \in ConversationIds :
        TimesFound(u, c) = IF ConversationOf(u, c) THEN 1 ELSE 0

\* create_context("c1", "u1") has just stored and persisted the context, and
\* find_contexts_by_user("u1") returns two contexts of conversation c1.
C40_Witness ==
    /\ last_call = Call("create_context", "c1", None)
    /\ "c1" \in DOMAIN context_manager.active_contexts
    /\ "c1" \in DOMAIN context_manager.files
    /\ context_manager.active_contexts["c1"].user_id = "u1"
    /\ context_manager.files["c1"].user_id = "u1"
    /\ Len(find_contexts_by_user(context_manager, "u1")) = 2
    /\ TimesFound("u1", "c1") = 2

\* Conversation c1 of user u1 is archived and nowhere else, and
\* find_contexts_by_user("u1") returns nothing.
ArchivedNotFound ==
    /\ \E r \in context_manager.archived :
          r.conversation_id = "c1" /\ r.record.user_id = "u1"
    /\ "c1" \notin DOMAIN context_manager.active_contexts
    /\ "c1" \notin DOMAIN context_manager.files
    /\ find_contexts_by_user(context_manager, "u1") = <<>>

====
